---- MODULE Spec2Model ----
(***************************************************************************)
(* State-machine model of the estate pallet (pallets/estate/src/lib.rs):   *)
(* land-unit registry, estates, undeployed land blocks, estate staking and *)
(* the round scheduler.                                                    *)
(*                                                                         *)
(* The pallet is written against a FRAME version without an implicit       *)
(* storage transaction around a dispatchable (no #[transactional] is used  *)
(* anywhere in the file), so a storage write made before an error return   *)
(* persists.  Every action below therefore models the whole handler, its   *)
(* error paths and the writes they leave behind included.                  *)
(***************************************************************************)
EXTENDS Integers, Sequences, FiniteSets, TLC

VARIABLES
    MaxBounds,                  \* metaverse -> <<min, max>>           (StorageMap)
    LandUnits,                  \* <<metaverse, coordinate>> -> owner  (StorageDoubleMap)
    AllLandUnitsCount,          \* u64
    NextEstateId,               \* u64
    AllEstatesCount,            \* u64
    Estates,                    \* estate id -> sequence of coordinates
    EstateOwner,                \* set of <<account, estate id>>
    TotalUndeployedLandUnit,    \* u64
    NextUndeployedLandBlockId,  \* u128
    UndeployedLandBlocks,       \* block id -> UndeployedLandBlock record
    UndeployedLandBlocksOwner,  \* set of <<account, block id>>
    Round,                      \* [current, first, length]
    TotalStake,                 \* Balance
    Staked,                     \* round -> Balance
    ExitQueue,                  \* set of <<account, estate id>>
    AtStake,                    \* <<round, estate id>> -> [stakers, total_bond]
    EstateStake,                \* <<estate id, account>> -> Balance
    free,                       \* Currency: account -> free balance
    reserved,                   \* Currency: account -> reserved balance
    inAuction,                  \* AuctionHandler: the items reported as in auction
    blockNumber,                \* frame_system: the block being executed
    ret                         \* the last call: [op, err, settled]

landVars   == <<MaxBounds, LandUnits, AllLandUnitsCount>>
estateVars == <<NextEstateId, AllEstatesCount, Estates, EstateOwner>>
blockVars  == <<TotalUndeployedLandUnit, NextUndeployedLandBlockId,
                UndeployedLandBlocks, UndeployedLandBlocksOwner>>
stakeVars  == <<Round, TotalStake, Staked, ExitQueue, AtStake, EstateStake>>
envVars    == <<free, reserved, inAuction, blockNumber>>
storage    == <<landVars, estateVars, blockVars, stakeVars, free, reserved>>
vars       == <<landVars, estateVars, blockVars, stakeVars, envVars, ret>>

----------------------------------------------------------------------------
(* Bounds of the model.                                                    *)

\* Longest coordinate list passed to a call.
MaxLen == 2
\* Estate ids handed out in a run.
MaxEstates == 1
\* Cap on AllLandUnitsCount (mints stop being called at the cap).
MaxLandCount == 2
\* Longest member list an estate is grown to by add_land_unit_to_estate.
MaxEstateLen == 2
\* Items the auction service reports at the same time.
MaxAuction == 1
\* Last block number on_initialize is called with.
MaxBlock == 4
\* Undeployed land block ids handed out by the issue call in a run.
MaxBlocks == 1

\* Signed origins and beneficiaries.
Accounts == {1, 2}
\* Free balance of the signed accounts at genesis, and the amounts bonded.
InitialBalance == [a \in Accounts |-> 3]
Amounts == {1, 2}
Metaverses == {1, 2}
Coords == {<<0, 0>>, <<0, 2>>}
BoundChoices == {<<0, 0>>, <<0, 2>>}

\* AccountId::default(), what a ValueQuery map returns for a missing key.
DefaultAccount == 0
\* Stand-in for the MAX of the counters and balances in checked_add: TLC
\* integers are 32 bits wide, and every number of the model stays far below
\* either value.
U64Max == 2147483647

RECURSIVE SeqsUpTo(_, _)
SeqsUpTo(S, n) ==
    IF n = 0 THEN {<<>>}
    ELSE LET shorter == SeqsUpTo(S, n - 1)
         IN  shorter \cup {Append(s, x) : s \in {t \in shorter : Len(t) = n - 1}, x \in S}

CoordSeqs == SeqsUpTo(Coords, MaxLen)

----------------------------------------------------------------------------
(* Storage primitives.                                                     *)

Insert(f, k, v) == [x \in DOMAIN f \cup {k} |-> IF x = k THEN v ELSE f[x]]
Remove(f, k)    == [x \in DOMAIN f \ {k} |-> f[x]]

\* T::LandTreasury::get().into_sub_account(estate_id): one account per id,
\* distinct from every signed account.
EstateAccount(estate_id) == 100 + estate_id

\* ItemId::LandUnit(coordinate, metaverse_id) and ItemId::Estate(estate_id)
LandItem(coordinate, metaverse_id) == <<"LandUnit", coordinate, metaverse_id>>
EstateItem(estate_id) == <<"Estate", estate_id>>
check_item_in_auction(item) == item \in inAuction

\* What a call returned; settled is the number of exit-queue entries a round
\* advance drained (0 for every other call).
Result(op, err) == [op |-> op, err |-> err, settled |-> 0]

\* LandUnits::get (ValueQuery)
get_land_units(lu, metaverse_id, coordinate) ==
    IF <<metaverse_id, coordinate>> \in DOMAIN lu
    THEN lu[<<metaverse_id, coordinate>>] ELSE DefaultAccount

----------------------------------------------------------------------------
(* Helpers of the pallet (impl<T: Config> Pallet<T>).                       *)

InBound(max_bound, coordinate) ==
    /\ coordinate[1] >= max_bound[1] /\ max_bound[2] >= coordinate[1]
    /\ coordinate[2] >= max_bound[1] /\ max_bound[2] >= coordinate[2]

\* mint_land_unit without the check that the coordinate is free
mint_land_unit_overwrite(lu, metaverse_id, beneficiary, coordinate, existing_land_units) ==
    IF metaverse_id \notin DOMAIN MaxBounds
    THEN [err |-> "NoMaxBoundSet", lu |-> lu]
    ELSE IF ~InBound(MaxBounds[metaverse_id], coordinate)
    THEN [err |-> "LandUnitIsOutOfBound", lu |-> lu]
    ELSE [err |-> "Ok", lu |-> Insert(lu, <<metaverse_id, coordinate>>, beneficiary)]

mint_land_unit(lu, metaverse_id, beneficiary, coordinate, existing_land_units) ==
    IF metaverse_id \notin DOMAIN MaxBounds
    THEN [err |-> "NoMaxBoundSet", lu |-> lu]
    ELSE IF existing_land_units /\ <<metaverse_id, coordinate>> \notin DOMAIN lu
    THEN [err |-> "LandUnitIsNotAvailable", lu |-> lu]
    ELSE IF ~existing_land_units /\ <<metaverse_id, coordinate>> \in DOMAIN lu
    THEN [err |-> "LandUnitIsNotAvailable", lu |-> lu]
    ELSE IF ~InBound(MaxBounds[metaverse_id], coordinate)
    THEN [err |-> "LandUnitIsOutOfBound", lu |-> lu]
    ELSE [err |-> "Ok", lu |-> Insert(lu, <<metaverse_id, coordinate>>, beneficiary)]

\* for coordinate in coordinates { Self::mint_land_unit(..)?; }
RECURSIVE MintLoop(_, _, _, _, _)
MintLoop(lu, metaverse_id, beneficiary, coordinates, existing_land_units) ==
    IF coordinates = <<>> THEN [err |-> "Ok", lu |-> lu]
    ELSE LET r == mint_land_unit(lu, metaverse_id, beneficiary,
                                 Head(coordinates), existing_land_units)
         IN  IF r.err # "Ok" THEN r
             ELSE MintLoop(r.lu, metaverse_id, beneficiary,
                           Tail(coordinates), existing_land_units)

set_total_land_unit(count, total, deduct) ==
    IF deduct
    THEN IF count - total < 0 THEN [err |-> "Overflow", count |-> count]
         ELSE [err |-> "Ok", count |-> count - total]
    ELSE IF count + total > U64Max THEN [err |-> "Overflow", count |-> count]
         ELSE [err |-> "Ok", count |-> count + total]

get_new_estate_id(next) ==
    IF next + 1 > U64Max THEN [err |-> "NoAvailableEstateId", id |-> next, next |-> next]
    ELSE [err |-> "Ok", id |-> next, next |-> next + 1]

\* for land_unit in land_units { LandUnits::try_mutate_exists(.., |a| *a = Some(owner)) }
RECURSIVE AssignLoop(_, _, _, _)
AssignLoop(lu, metaverse_id, land_units, owner) ==
    IF land_units = <<>> THEN lu
    ELSE AssignLoop(Insert(lu, <<metaverse_id, Head(land_units)>>, owner),
                    metaverse_id, Tail(land_units), owner)

\* LandUnits::try_mutate_exists(metaverse_id, coordinate, closure): the closure
\* sets its value to None and inserts the new owner under the same key; on Ok
\* the closure's value is written back over the key.
do_transfer_landunit(lu, coordinate, from, to, metaverse_id) ==
    LET key == <<metaverse_id, coordinate>> IN
    IF key \notin DOMAIN lu THEN [err |-> "NoPermission", lu |-> lu]
    ELSE IF lu[key] # from THEN [err |-> "NoPermission", lu |-> lu]
    ELSE IF from = to THEN [err |-> "AlreadyOwnTheLandUnit", lu |-> lu]
    ELSE LET inner == Insert(lu, key, to)      \* LandUnits::insert(.., to)
         IN  [err |-> "Ok", lu |-> Remove(inner, key)]  \* write-back of None

\* do_transfer_estate that records the new owner and keeps the old record
do_transfer_estate_keep_from(eo, estate_id, from, to) ==
    IF <<from, estate_id>> \notin eo THEN [err |-> "NoPermission", eo |-> eo]
    ELSE IF from = to THEN [err |-> "AlreadyOwnTheEstate", eo |-> eo]
    ELSE [err |-> "Ok", eo |-> eo \cup {<<to, estate_id>>}]

\* EstateOwner::try_mutate_exists(from, estate_id, closure)
do_transfer_estate(eo, estate_id, from, to) ==
    IF <<from, estate_id>> \notin eo THEN [err |-> "NoPermission", eo |-> eo]
    ELSE IF from = to THEN [err |-> "AlreadyOwnTheEstate", eo |-> eo]
    ELSE [err |-> "Ok", eo |-> (eo \cup {<<to, estate_id>>}) \ {<<from, estate_id>>}]

----------------------------------------------------------------------------
(* Dispatchables of the land registry.                                     *)

set_max_bounds(metaverse_id, new_bound) ==
    /\ MaxBounds' = Insert(MaxBounds, metaverse_id, new_bound)
    /\ ret' = Result("set_max_bounds", "Ok")
    /\ UNCHANGED <<LandUnits, AllLandUnitsCount, estateVars, blockVars, stakeVars, envVars>>

mint_land(beneficiary, metaverse_id, coordinate) ==
    LET r == mint_land_unit(LandUnits, metaverse_id, beneficiary, coordinate, FALSE)
        t == set_total_land_unit(AllLandUnitsCount, 1, FALSE)
    IN  /\ IF r.err # "Ok"
           THEN /\ ret' = Result("mint_land", r.err)
                /\ UNCHANGED <<LandUnits, AllLandUnitsCount>>
           ELSE IF t.err # "Ok"
           THEN /\ ret' = Result("mint_land", t.err)
                /\ LandUnits' = r.lu
                /\ UNCHANGED AllLandUnitsCount
           ELSE /\ ret' = Result("mint_land", "Ok")
                /\ AllLandUnitsCount' = t.count
                /\ LandUnits' = Insert(r.lu, <<metaverse_id, coordinate>>, beneficiary)
        /\ UNCHANGED <<MaxBounds, estateVars, blockVars, stakeVars, envVars>>

mint_lands(beneficiary, metaverse_id, coordinates) ==
    LET r == MintLoop(LandUnits, metaverse_id, beneficiary, coordinates, FALSE)
        t == set_total_land_unit(AllLandUnitsCount, Len(coordinates), FALSE)
    IN  /\ LandUnits' = r.lu
        /\ IF r.err # "Ok"
           THEN /\ ret' = Result("mint_lands", r.err)
                /\ UNCHANGED AllLandUnitsCount
           ELSE /\ ret' = Result("mint_lands", t.err)
                /\ AllLandUnitsCount' = t.count
        /\ UNCHANGED <<MaxBounds, estateVars, blockVars, stakeVars, envVars>>

\* transfer_land without its check of the auction service
transfer_land_unchecked(who, to, metaverse_id, coordinate) ==
    LET r == do_transfer_landunit(LandUnits, coordinate, who, to, metaverse_id)
    IN  /\ ret' = Result("transfer_land", r.err)
        /\ LandUnits' = r.lu
        /\ UNCHANGED <<MaxBounds, AllLandUnitsCount, estateVars, blockVars, stakeVars, envVars>>

transfer_land(who, to, metaverse_id, coordinate) ==
    LET r == do_transfer_landunit(LandUnits, coordinate, who, to, metaverse_id)
    IN  /\ IF check_item_in_auction(LandItem(coordinate, metaverse_id))
           THEN /\ ret' = Result("transfer_land", "LandUnitAlreadyInAuction")
                /\ UNCHANGED LandUnits
           ELSE /\ ret' = Result("transfer_land", r.err)
                /\ LandUnits' = r.lu
        /\ UNCHANGED <<MaxBounds, AllLandUnitsCount, estateVars, blockVars, stakeVars, envVars>>

----------------------------------------------------------------------------
(* Dispatchables of the estate registry.                                   *)

\* AllEstatesCount checked_add, Estates::insert, EstateOwner::insert
update_estate_information(new_estate_id, beneficiary, coordinates) ==
    IF AllEstatesCount + 1 > U64Max
    THEN [err |-> "Overflow", count |-> AllEstatesCount, estates |-> Estates,
          eo |-> EstateOwner]
    ELSE [err |-> "Ok", count |-> AllEstatesCount + 1,
          estates |-> Insert(Estates, new_estate_id, coordinates),
          eo |-> EstateOwner \cup {<<beneficiary, new_estate_id>>}]

mint_estate(beneficiary, metaverse_id, coordinates) ==
    LET g == get_new_estate_id(NextEstateId)
        r == MintLoop(LandUnits, metaverse_id, EstateAccount(g.id), coordinates, FALSE)
        t == set_total_land_unit(AllLandUnitsCount, Len(coordinates), FALSE)
        u == update_estate_information(g.id, beneficiary, coordinates)
    IN  /\ IF g.err # "Ok"
           THEN /\ ret' = Result("mint_estate", g.err)
                /\ UNCHANGED <<LandUnits, AllLandUnitsCount, estateVars>>
           ELSE IF r.err # "Ok"
           THEN /\ ret' = Result("mint_estate", r.err)
                /\ NextEstateId' = g.next
                /\ LandUnits' = r.lu
                /\ UNCHANGED <<AllLandUnitsCount, AllEstatesCount, Estates, EstateOwner>>
           ELSE IF t.err # "Ok"
           THEN /\ ret' = Result("mint_estate", t.err)
                /\ NextEstateId' = g.next
                /\ LandUnits' = r.lu
                /\ UNCHANGED <<AllLandUnitsCount, AllEstatesCount, Estates, EstateOwner>>
           ELSE /\ ret' = Result("mint_estate", u.err)
                /\ NextEstateId' = g.next
                /\ LandUnits' = r.lu
                /\ AllLandUnitsCount' = t.count
                /\ AllEstatesCount' = u.count
                /\ Estates' = u.estates
                /\ EstateOwner' = u.eo
        /\ UNCHANGED <<MaxBounds, blockVars, stakeVars, envVars>>

create_estate(beneficiary, metaverse_id, coordinates) ==
    LET g == get_new_estate_id(NextEstateId)
        r == MintLoop(LandUnits, metaverse_id, EstateAccount(g.id), coordinates, TRUE)
        u == update_estate_information(g.id, beneficiary, coordinates)
    IN  /\ IF g.err # "Ok"
           THEN /\ ret' = Result("create_estate", g.err)
                /\ UNCHANGED <<LandUnits, estateVars>>
           ELSE IF r.err # "Ok"
           THEN /\ ret' = Result("create_estate", r.err)
                /\ NextEstateId' = g.next
                /\ LandUnits' = r.lu
                /\ UNCHANGED <<AllEstatesCount, Estates, EstateOwner>>
           ELSE /\ ret' = Result("create_estate", u.err)
                /\ NextEstateId' = g.next
                /\ LandUnits' = r.lu
                /\ AllEstatesCount' = u.count
                /\ Estates' = u.estates
                /\ EstateOwner' = u.eo
        /\ UNCHANGED <<MaxBounds, AllLandUnitsCount, blockVars, stakeVars, envVars>>

transfer_estate(who, to, estate_id) ==
    LET r == do_transfer_estate(EstateOwner, estate_id, who, to)
    IN  /\ IF check_item_in_auction(EstateItem(estate_id))
           THEN /\ ret' = Result("transfer_estate", "EstateAlreadyInAuction")
                /\ UNCHANGED EstateOwner
           ELSE /\ ret' = Result("transfer_estate", r.err)
                /\ EstateOwner' = r.eo
        /\ UNCHANGED <<landVars, NextEstateId, AllEstatesCount, Estates,
                       blockVars, stakeVars, envVars>>

\* EstateOwner::try_mutate_exists(who, estate_id, closure): Estates::remove is a
\* direct write made before the counter is checked; the owner record goes only
\* when the closure returns Ok.
dissolve_estate(who, estate_id, metaverse_id) ==
    /\ IF check_item_in_auction(EstateItem(estate_id))
       THEN /\ ret' = Result("dissolve_estate", "EstateAlreadyInAuction")
            /\ UNCHANGED <<LandUnits, AllEstatesCount, Estates, EstateOwner>>
       ELSE IF estate_id \notin DOMAIN Estates
       THEN /\ ret' = Result("dissolve_estate", "EstateDoesNotExist")
            /\ UNCHANGED <<LandUnits, AllEstatesCount, Estates, EstateOwner>>
       ELSE IF <<who, estate_id>> \notin EstateOwner
       THEN /\ ret' = Result("dissolve_estate", "NoPermission")
            /\ UNCHANGED <<LandUnits, AllEstatesCount, Estates, EstateOwner>>
       ELSE IF AllEstatesCount - 1 < 0
       THEN /\ ret' = Result("dissolve_estate", "Overflow")
            /\ Estates' = Remove(Estates, estate_id)
            /\ UNCHANGED <<LandUnits, AllEstatesCount, EstateOwner>>
       ELSE /\ ret' = Result("dissolve_estate", "Ok")
            /\ Estates' = Remove(Estates, estate_id)
            /\ AllEstatesCount' = AllEstatesCount - 1
            /\ LandUnits' = AssignLoop(LandUnits, metaverse_id, Estates[estate_id], who)
            /\ EstateOwner' = EstateOwner \ {<<who, estate_id>>}
    /\ UNCHANGED <<MaxBounds, AllLandUnitsCount, NextEstateId, blockVars, stakeVars, envVars>>

\* every supplied unit must read back as owned by the caller (ValueQuery get)
OwnsAll(lu, metaverse_id, land_units, who) ==
    \A i \in 1..Len(land_units) : get_land_units(lu, metaverse_id, land_units[i]) = who

add_land_unit_to_estate(who, estate_id, metaverse_id, land_units) ==
    /\ IF check_item_in_auction(EstateItem(estate_id))
       THEN /\ ret' = Result("add_land_unit_to_estate", "EstateAlreadyInAuction")
            /\ UNCHANGED <<LandUnits, Estates>>
       ELSE IF estate_id \notin DOMAIN Estates
       THEN /\ ret' = Result("add_land_unit_to_estate", "EstateDoesNotExist")
            /\ UNCHANGED <<LandUnits, Estates>>
       ELSE IF <<who, estate_id>> \notin EstateOwner
       THEN /\ ret' = Result("add_land_unit_to_estate", "NoPermission")
            /\ UNCHANGED <<LandUnits, Estates>>
       ELSE IF ~OwnsAll(LandUnits, metaverse_id, land_units, who)
       THEN /\ ret' = Result("add_land_unit_to_estate", "LandUnitDoesNotExist")
            /\ UNCHANGED <<LandUnits, Estates>>
       ELSE /\ ret' = Result("add_land_unit_to_estate", "Ok")
            /\ Estates' = Insert(Estates, estate_id, Estates[estate_id] \o land_units)
            /\ LandUnits' = AssignLoop(LandUnits, metaverse_id, land_units,
                                       EstateAccount(estate_id))
    /\ UNCHANGED <<MaxBounds, AllLandUnitsCount, NextEstateId, AllEstatesCount,
                   EstateOwner, blockVars, stakeVars, envVars>>

\* land_units_by_estate.iter().position(|x| *x == land_unit): 0 when absent
Position(list, land_unit) ==
    IF \E i \in 1..Len(list) : list[i] = land_unit
    THEN CHOOSE i \in 1..Len(list) :
            /\ list[i] = land_unit
            /\ \A j \in 1..(i - 1) : list[j] # land_unit
    ELSE 0

RemoveAt(list, index) == SubSeq(list, 1, index - 1) \o SubSeq(list, index + 1, Len(list))

\* the loop of remove_land_unit_from_estate: position(..).unwrap() panics on
\* a coordinate the list does not hold
RECURSIVE RemoveLoop(_, _, _, _, _)
RemoveLoop(list, lu, metaverse_id, land_units, who) ==
    IF land_units = <<>> THEN [err |-> "Ok", list |-> list, lu |-> lu]
    ELSE LET index == Position(list, Head(land_units))
         IN  IF index = 0 THEN [err |-> "Panic", list |-> list, lu |-> lu]
             ELSE RemoveLoop(RemoveAt(list, index),
                             Insert(lu, <<metaverse_id, Head(land_units)>>, who),
                             metaverse_id, Tail(land_units), who)

\* A panic aborts the runtime call: the host discards every write of it.
remove_land_unit_from_estate(who, estate_id, metaverse_id, land_units) ==
    /\ IF check_item_in_auction(EstateItem(estate_id))
       THEN /\ ret' = Result("remove_land_unit_from_estate", "EstateAlreadyInAuction")
            /\ UNCHANGED <<LandUnits, Estates>>
       ELSE IF estate_id \notin DOMAIN Estates
       THEN /\ ret' = Result("remove_land_unit_from_estate", "EstateDoesNotExist")
            /\ UNCHANGED <<LandUnits, Estates>>
       ELSE IF <<who, estate_id>> \notin EstateOwner
       THEN /\ ret' = Result("remove_land_unit_from_estate", "NoPermission")
            /\ UNCHANGED <<LandUnits, Estates>>
       ELSE LET r == RemoveLoop(Estates[estate_id], LandUnits, metaverse_id, land_units, who)
            IN  IF r.err # "Ok"
                THEN /\ ret' = Result("remove_land_unit_from_estate", r.err)
                     /\ UNCHANGED <<LandUnits, Estates>>
                ELSE /\ ret' = Result("remove_land_unit_from_estate", "Ok")
                     /\ Estates' = Insert(Estates, estate_id, r.list)
                     /\ LandUnits' = r.lu
    /\ UNCHANGED <<MaxBounds, AllLandUnitsCount, NextEstateId, AllEstatesCount,
                   EstateOwner, blockVars, stakeVars, envVars>>

----------------------------------------------------------------------------
(* impl Estate<T::AccountId> for Pallet<T>: the entry points other pallets  *)
(* (the auction pallet) call.                                              *)

Estate_transfer_estate(estate_id, from, to) ==
    LET r == do_transfer_estate(EstateOwner, estate_id, from, to)
    IN  /\ IF ~check_item_in_auction(EstateItem(estate_id))
           THEN /\ ret' = Result("Estate::transfer_estate", "EstateNotInAuction")
                /\ UNCHANGED EstateOwner
           ELSE /\ ret' = Result("Estate::transfer_estate", r.err)
                /\ EstateOwner' = r.eo
        /\ UNCHANGED <<landVars, NextEstateId, AllEstatesCount, Estates,
                       blockVars, stakeVars, envVars>>

Estate_transfer_landunit(coordinate, from, to, metaverse_id) ==
    LET r == do_transfer_landunit(LandUnits, coordinate, from, to, metaverse_id)
    IN  /\ IF ~check_item_in_auction(LandItem(coordinate, metaverse_id))
           THEN /\ ret' = Result("Estate::transfer_landunit", "LandUnitNotInAuction")
                /\ UNCHANGED LandUnits
           ELSE /\ ret' = Result("Estate::transfer_landunit", r.err)
                /\ LandUnits' = r.lu
        /\ UNCHANGED <<MaxBounds, AllLandUnitsCount, estateVars, blockVars, stakeVars, envVars>>

----------------------------------------------------------------------------
(* The auction service (T::AuctionHandler), an external collaborator: what  *)
(* it reports as in auction changes outside the pallet.                    *)

AuctionItems == {LandItem(<<0, 0>>, 1), EstateItem(0)}

AuctionChanges(items) ==
    /\ items # inAuction
    /\ inAuction' = items
    /\ ret' = Result("auction", "Ok")
    /\ UNCHANGED <<landVars, estateVars, blockVars, stakeVars, free, reserved, blockNumber>>

----------------------------------------------------------------------------
(* Undeployed land blocks.                                                 *)

\* set_total_undeployed_land_unit that adds whatever the deduct flag says
set_total_undeployed_land_unit_add_only(count, total, deduct) ==
    IF count + total > U64Max THEN [err |-> "Overflow", count |-> count]
    ELSE [err |-> "Ok", count |-> count + total]

set_total_undeployed_land_unit(count, total, deduct) ==
    IF deduct
    THEN IF count - total < 0 THEN [err |-> "Overflow", count |-> count]
         ELSE [err |-> "Ok", count |-> count - total]
    ELSE IF count + total > U64Max THEN [err |-> "Overflow", count |-> count]
         ELSE [err |-> "Ok", count |-> count + total]

get_new_undeployed_land_block_id(next) ==
    IF next + 1 > U64Max THEN [err |-> "NoAvailableEstateId", id |-> next, next |-> next]
    ELSE [err |-> "Ok", id |-> next, next |-> next + 1]

\* The loop of do_issue_undeployed_land_blocks over the storage it writes:
\* st = [next, blocks, owners, total]; an error return keeps what was written.
RECURSIVE IssueLoop(_, _, _, _, _)
IssueLoop(st, beneficiary, number_of_land_block, units, type) ==
    IF number_of_land_block = 0 THEN [err |-> "Ok"] @@ st
    ELSE LET g == get_new_undeployed_land_block_id(st.next)
             block == [id |-> g.id, number_land_units |-> units,
                       undeployed_land_block_type |-> type, approved |-> {},
                       is_frozen |-> FALSE, owner |-> beneficiary]
             t == set_total_undeployed_land_unit(st.total, units, FALSE)
             written == [next |-> g.next,
                         blocks |-> Insert(st.blocks, g.id, block),
                         owners |-> st.owners \cup {<<beneficiary, g.id>>},
                         total |-> t.count]
         IN  IF g.err # "Ok" THEN [err |-> g.err] @@ st
             ELSE IF t.err # "Ok" THEN [err |-> t.err] @@ written
             ELSE IssueLoop(written, beneficiary, number_of_land_block - 1, units, type)

do_issue_undeployed_land_blocks(beneficiary, number_of_land_block, units, type) ==
    IssueLoop([next |-> NextUndeployedLandBlockId, blocks |-> UndeployedLandBlocks,
               owners |-> UndeployedLandBlocksOwner, total |-> TotalUndeployedLandUnit],
              beneficiary, number_of_land_block, units, type)

\* do_burn_undeployed_land_block without the check that the block is frozen
do_burn_any_state(blocks, owners, total, id) ==
    IF id \notin DOMAIN blocks
    THEN [err |-> "UndeployedLandBlockNotFound", blocks |-> blocks, owners |-> owners,
          total |-> total]
    ELSE [err |-> "Ok", blocks |-> Remove(blocks, id),
          owners |-> owners \ {<<blocks[id].owner, id>>},
          total |-> total - blocks[id].number_land_units]

\* do_burn_undeployed_land_block that leaves the counter as it is
do_burn_keep_total(blocks, owners, total, id) ==
    IF id \notin DOMAIN blocks
    THEN [err |-> "UndeployedLandBlockNotFound", blocks |-> blocks, owners |-> owners,
          total |-> total]
    ELSE IF ~blocks[id].is_frozen
    THEN [err |-> "OnlyFrozenUndeployedLandBlockCanBeDestroyed", blocks |-> blocks,
          owners |-> owners, total |-> total]
    ELSE [err |-> "Ok", blocks |-> Remove(blocks, id),
          owners |-> owners \ {<<blocks[id].owner, id>>}, total |-> total]

\* do_burn_undeployed_land_block that leaves the entry of the owner index
do_burn_keep_owner_index(blocks, owners, total, id) ==
    IF id \notin DOMAIN blocks
    THEN [err |-> "UndeployedLandBlockNotFound", blocks |-> blocks, owners |-> owners,
          total |-> total]
    ELSE IF ~blocks[id].is_frozen
    THEN [err |-> "OnlyFrozenUndeployedLandBlockCanBeDestroyed", blocks |-> blocks,
          owners |-> owners, total |-> total]
    ELSE [err |-> "Ok", blocks |-> Remove(blocks, id), owners |-> owners,
          total |-> total - blocks[id].number_land_units]

do_burn_undeployed_land_block(blocks, owners, total, id) ==
    LET unchanged == [blocks |-> blocks, owners |-> owners, total |-> total] IN
    IF id \notin DOMAIN blocks
    THEN [err |-> "UndeployedLandBlockNotFound"] @@ unchanged
    ELSE IF ~blocks[id].is_frozen
    THEN [err |-> "OnlyFrozenUndeployedLandBlockCanBeDestroyed"] @@ unchanged
    ELSE LET t == set_total_undeployed_land_unit(total, blocks[id].number_land_units, TRUE)
         IN  IF t.err # "Ok" THEN [err |-> t.err] @@ unchanged
             ELSE [err |-> "Ok", blocks |-> Remove(blocks, id),
                   owners |-> owners \ {<<blocks[id].owner, id>>}, total |-> t.count]

do_freeze_undeployed_land_block(blocks, id) ==
    IF id \notin DOMAIN blocks
    THEN [err |-> "UndeployedLandBlockNotFound", blocks |-> blocks]
    ELSE IF blocks[id].is_frozen
    THEN [err |-> "UndeployedLandBlockAlreadyFreezed", blocks |-> blocks]
    ELSE [err |-> "Ok", blocks |-> Insert(blocks, id, [blocks[id] EXCEPT !.is_frozen = TRUE])]

\* do_transfer_undeployed_land_block without the check of the block's class
do_transfer_any_class(blocks, owners, who, to, id) ==
    IF id \notin DOMAIN blocks
    THEN [err |-> "UndeployedLandBlockNotFound", blocks |-> blocks, owners |-> owners]
    ELSE IF blocks[id].owner # who
    THEN [err |-> "NoPermission", blocks |-> blocks, owners |-> owners]
    ELSE IF blocks[id].is_frozen
    THEN [err |-> "UndeployedLandBlockAlreadyFreezed", blocks |-> blocks, owners |-> owners]
    ELSE [err |-> "Ok",
          blocks |-> Insert(blocks, id, [blocks[id] EXCEPT !.owner = to]),
          owners |-> (owners \ {<<who, id>>}) \cup {<<to, id>>}]

\* do_transfer_undeployed_land_block that leaves the previous owner's index
\* entry in place
do_transfer_keep_index(blocks, owners, who, to, id) ==
    IF id \notin DOMAIN blocks
    THEN [err |-> "UndeployedLandBlockNotFound", blocks |-> blocks, owners |-> owners]
    ELSE IF blocks[id].owner # who
    THEN [err |-> "NoPermission", blocks |-> blocks, owners |-> owners]
    ELSE IF blocks[id].is_frozen
    THEN [err |-> "UndeployedLandBlockAlreadyFreezed", blocks |-> blocks, owners |-> owners]
    ELSE IF blocks[id].undeployed_land_block_type # "Transferable"
    THEN [err |-> "UndeployedLandBlockIsNotTransferable", blocks |-> blocks,
          owners |-> owners]
    ELSE [err |-> "Ok",
          blocks |-> Insert(blocks, id, [blocks[id] EXCEPT !.owner = to]),
          owners |-> owners \cup {<<to, id>>}]

do_transfer_undeployed_land_block(blocks, owners, who, to, id) ==
    LET unchanged == [blocks |-> blocks, owners |-> owners] IN
    IF id \notin DOMAIN blocks
    THEN [err |-> "UndeployedLandBlockNotFound"] @@ unchanged
    ELSE IF blocks[id].owner # who
    THEN [err |-> "NoPermission"] @@ unchanged
    ELSE IF blocks[id].is_frozen
    THEN [err |-> "UndeployedLandBlockAlreadyFreezed"] @@ unchanged
    ELSE IF blocks[id].undeployed_land_block_type # "Transferable"
    THEN [err |-> "UndeployedLandBlockIsNotTransferable"] @@ unchanged
    ELSE [err |-> "Ok",
          blocks |-> Insert(blocks, id, [blocks[id] EXCEPT !.owner = to]),
          owners |-> (owners \ {<<who, id>>}) \cup {<<to, id>>}]

issue_undeployed_land_blocks(beneficiary, number_of_land_block, units, type) ==
    LET r == do_issue_undeployed_land_blocks(beneficiary, number_of_land_block, units, type)
    IN  /\ ret' = Result("issue_undeployed_land_blocks", r.err)
        /\ NextUndeployedLandBlockId' = r.next
        /\ UndeployedLandBlocks' = r.blocks
        /\ UndeployedLandBlocksOwner' = r.owners
        /\ TotalUndeployedLandUnit' = r.total
        /\ UNCHANGED <<landVars, estateVars, stakeVars, envVars>>

freeze_undeployed_land_blocks(id) ==
    LET r == do_freeze_undeployed_land_block(UndeployedLandBlocks, id)
    IN  /\ ret' = Result("freeze_undeployed_land_blocks", r.err)
        /\ UndeployedLandBlocks' = r.blocks
        /\ UNCHANGED <<landVars, estateVars, stakeVars, envVars, TotalUndeployedLandUnit,
                       NextUndeployedLandBlockId, UndeployedLandBlocksOwner>>

unfreeze_undeployed_land_blocks(id) ==
    /\ IF id \notin DOMAIN UndeployedLandBlocks
       THEN /\ ret' = Result("unfreeze_undeployed_land_blocks", "UndeployedLandBlockNotFound")
            /\ UNCHANGED UndeployedLandBlocks
       ELSE IF ~UndeployedLandBlocks[id].is_frozen
       THEN /\ ret' = Result("unfreeze_undeployed_land_blocks", "UndeployedLandBlockNotFrozen")
            /\ UNCHANGED UndeployedLandBlocks
       ELSE /\ ret' = Result("unfreeze_undeployed_land_blocks", "Ok")
            /\ UndeployedLandBlocks' =
                  Insert(UndeployedLandBlocks, id,
                         [UndeployedLandBlocks[id] EXCEPT !.is_frozen = FALSE])
    /\ UNCHANGED <<landVars, estateVars, stakeVars, envVars, TotalUndeployedLandUnit,
                   NextUndeployedLandBlockId, UndeployedLandBlocksOwner>>

transfer_undeployed_land_blocks(who, to, id) ==
    LET r == do_transfer_undeployed_land_block(UndeployedLandBlocks,
                                               UndeployedLandBlocksOwner, who, to, id)
    IN  /\ ret' = Result("transfer_undeployed_land_blocks", r.err)
        /\ UndeployedLandBlocks' = r.blocks
        /\ UndeployedLandBlocksOwner' = r.owners
        /\ UNCHANGED <<landVars, estateVars, stakeVars, envVars, TotalUndeployedLandUnit,
                       NextUndeployedLandBlockId>>

burn_undeployed_land_blocks(id) ==
    LET r == do_burn_undeployed_land_block(UndeployedLandBlocks, UndeployedLandBlocksOwner,
                                           TotalUndeployedLandUnit, id)
    IN  /\ ret' = Result("burn_undeployed_land_blocks", r.err)
        /\ UndeployedLandBlocks' = r.blocks
        /\ UndeployedLandBlocksOwner' = r.owners
        /\ TotalUndeployedLandUnit' = r.total
        /\ UNCHANGED <<landVars, estateVars, stakeVars, envVars, NextUndeployedLandBlockId>>

\* approve (Some(to), here {to}) and unapprove (None, here {}) share their checks
SetApproved(op, who, id, delegate) ==
    /\ IF id \notin DOMAIN UndeployedLandBlocks
       THEN /\ ret' = Result(op, "UndeployedLandBlockNotFound")
            /\ UNCHANGED UndeployedLandBlocks
       ELSE IF UndeployedLandBlocks[id].owner # who
       THEN /\ ret' = Result(op, "NoPermission")
            /\ UNCHANGED UndeployedLandBlocks
       ELSE IF UndeployedLandBlocks[id].is_frozen
       THEN /\ ret' = Result(op, "UndeployedLandBlockAlreadyFreezed")
            /\ UNCHANGED UndeployedLandBlocks
       ELSE /\ ret' = Result(op, "Ok")
            /\ UndeployedLandBlocks' =
                  Insert(UndeployedLandBlocks, id,
                         [UndeployedLandBlocks[id] EXCEPT !.approved = delegate])
    /\ UNCHANGED <<landVars, estateVars, stakeVars, envVars, TotalUndeployedLandUnit,
                   NextUndeployedLandBlockId, UndeployedLandBlocksOwner>>

approve_undeployed_land_blocks(who, to, id) ==
    SetApproved("approve_undeployed_land_blocks", who, id, {to})

unapprove_undeployed_land_blocks(who, id) ==
    SetApproved("unapprove_undeployed_land_blocks", who, id, {})

\* UndeployedLandBlocks::try_mutate_exists(id, closure).  The closure's record
\* is written back only on Ok; the land units, the land counter and what
\* do_burn_undeployed_land_block writes are direct writes.
DeployResult(who, id, metaverse_id, coordinates) ==
    LET same == [lu |-> LandUnits, count |-> AllLandUnitsCount,
                 blocks |-> UndeployedLandBlocks, owners |-> UndeployedLandBlocksOwner,
                 total |-> TotalUndeployedLandUnit]
        land_units_to_mint == Len(coordinates)
    IN
    IF id \notin DOMAIN UndeployedLandBlocks
    THEN [err |-> "UndeployedLandBlockNotFound"] @@ same
    ELSE LET record == UndeployedLandBlocks[id] IN
    IF record.owner # who THEN [err |-> "NoPermission"] @@ same
    ELSE IF record.is_frozen THEN [err |-> "UndeployedLandBlockFreezed"] @@ same
    ELSE IF ~(record.number_land_units > land_units_to_mint)
    THEN [err |-> "UndeployedLandBlockDoesNotHaveEnoughLandUnits"] @@ same
    ELSE LET r == MintLoop(LandUnits, metaverse_id, who, coordinates, FALSE)
             t == set_total_land_unit(AllLandUnitsCount, land_units_to_mint, FALSE)
             minted == [same EXCEPT !.lu = r.lu]
             counted == [minted EXCEPT !.count = t.count]
         IN
    IF r.err # "Ok" THEN [err |-> r.err] @@ minted
    ELSE IF t.err # "Ok" THEN [err |-> t.err] @@ minted
    ELSE LET burning == record.number_land_units = land_units_to_mint
             b == do_burn_undeployed_land_block(UndeployedLandBlocks,
                        UndeployedLandBlocksOwner, TotalUndeployedLandUnit, id)
             after == IF burning
                      THEN [counted EXCEPT !.blocks = b.blocks, !.owners = b.owners,
                                           !.total = b.total]
                      ELSE counted
             new_record == IF burning THEN record
                           ELSE [record EXCEPT !.number_land_units = @ - land_units_to_mint]
             d == set_total_undeployed_land_unit(after.total, land_units_to_mint, TRUE)
         IN
    IF burning /\ b.err # "Ok" THEN [err |-> b.err] @@ counted
    ELSE IF d.err # "Ok" THEN [err |-> d.err] @@ after
    ELSE [err |-> "Ok"] @@
         [after EXCEPT !.total = d.count, !.blocks = Insert(after.blocks, id, new_record)]

deploy_land_block(who, id, metaverse_id, coordinates) ==
    LET r == DeployResult(who, id, metaverse_id, coordinates)
    IN  /\ ret' = Result("deploy_land_block", r.err)
        /\ LandUnits' = r.lu
        /\ AllLandUnitsCount' = r.count
        /\ UndeployedLandBlocks' = r.blocks
        /\ UndeployedLandBlocksOwner' = r.owners
        /\ TotalUndeployedLandUnit' = r.total
        /\ UNCHANGED <<MaxBounds, estateVars, stakeVars, envVars, NextUndeployedLandBlockId>>

----------------------------------------------------------------------------
(* Estate staking.                                                         *)

\* T::MinimumStake, T::RewardPaymentDelay, T::MinBlocksPerRound (Config)
MinimumStake == 2
RewardPaymentDelay == 2
MinBlocksPerRound == 2
\* round_issuance_range(..).ideal as u32: blocks issued to the treasury per round
RoundIssuanceIdeal == 1
\* T::LandTreasury::get().into_account()
LandTreasuryAccount == 9

Holders == Accounts \cup {LandTreasuryAccount}

\* EstateStake::get (ValueQuery)
estate_stake(es, estate_id, who) ==
    IF <<estate_id, who>> \in DOMAIN es THEN es[<<estate_id, who>>] ELSE 0

\* Currency::unreserve that moves nothing
Unreserve_nothing(bal, who, amount) == bal

\* Currency::unreserve: moves min(amount, reserved) back to free
Unreserve(bal, who, amount) ==
    LET actual == IF amount < bal.reserved[who] THEN amount ELSE bal.reserved[who]
    IN  [free |-> [bal.free EXCEPT ![who] = @ + actual],
         reserved |-> [bal.reserved EXCEPT ![who] = @ - actual]]

\* The Currency of the runtime is shared with the other pallets: an account
\* spends its whole free balance; what the pallet reserved stays reserved.
Spend(who) ==
    /\ free[who] > 0
    /\ free' = [free EXCEPT ![who] = 0]
    /\ ret' = Result("Currency::transfer", "Ok")
    /\ UNCHANGED <<landVars, estateVars, blockVars, stakeVars, reserved, inAuction,
                   blockNumber>>

\* the checks of bond_more and bond_less without the one of the exit queue
BondChecks_no_exit_queue(who, estate_id) ==
    IF estate_id \notin DOMAIN Estates THEN "EstateDoesNotExist"
    ELSE IF <<who, estate_id>> \notin EstateOwner THEN "NoPermission"
    ELSE "Ok"

BondChecks(who, estate_id) ==
    IF estate_id \notin DOMAIN Estates THEN "EstateDoesNotExist"
    ELSE IF <<who, estate_id>> \notin EstateOwner THEN "NoPermission"
    ELSE IF <<who, estate_id>> \in ExitQueue THEN "EstateStakeAlreadyLeft"
    ELSE "Ok"

\* bond_more without the check of the caller's ownership of the estate
BondMoreResult_any_caller(who, estate_id, more) ==
    LET total == estate_stake(EstateStake, estate_id, who) + more
    IN  IF estate_id \notin DOMAIN Estates THEN "EstateDoesNotExist"
        ELSE IF <<who, estate_id>> \in ExitQueue THEN "EstateStakeAlreadyLeft"
        ELSE IF total > U64Max THEN "Overflow"
        ELSE IF total < MinimumStake THEN "BelowMinimumStake"
        ELSE IF free[who] < more THEN "InsufficientBalance"
        ELSE "Ok"

BondMoreResult(who, estate_id, more) ==
    LET staked_balance == estate_stake(EstateStake, estate_id, who)
        total == staked_balance + more
    IN  IF BondChecks(who, estate_id) # "Ok" THEN BondChecks(who, estate_id)
        ELSE IF total > U64Max THEN "Overflow"
        ELSE IF total < MinimumStake THEN "BelowMinimumStake"
        ELSE IF free[who] < more THEN "InsufficientBalance"   \* Currency::reserve
        ELSE "Ok"

bond_more(who, estate_id, more) ==
    LET err == BondMoreResult(who, estate_id, more)
    IN  /\ ret' = Result("bond_more", err)
        /\ IF err # "Ok"
           THEN UNCHANGED <<EstateStake, TotalStake, free, reserved>>
           ELSE /\ free' = [free EXCEPT ![who] = @ - more]
                /\ reserved' = [reserved EXCEPT ![who] = @ + more]
                /\ EstateStake' = Insert(EstateStake, <<estate_id, who>>,
                                         estate_stake(EstateStake, estate_id, who) + more)
                /\ TotalStake' = TotalStake + more
        /\ UNCHANGED <<landVars, estateVars, blockVars, Round, Staked, ExitQueue, AtStake,
                       inAuction, blockNumber>>

\* bond_less with the floor of the remaining stake at zero
BondLessResult_floor_zero(who, estate_id, less) ==
    LET remaining == estate_stake(EstateStake, estate_id, who) - less
    IN  IF BondChecks(who, estate_id) # "Ok" THEN BondChecks(who, estate_id)
        ELSE IF remaining < 0 THEN "Overflow"
        ELSE "Ok"

BondLessResult(who, estate_id, less) ==
    LET staked_balance == estate_stake(EstateStake, estate_id, who)
        remaining == staked_balance - less
    IN  IF BondChecks(who, estate_id) # "Ok" THEN BondChecks(who, estate_id)
        ELSE IF remaining < 0 THEN "Overflow"
        ELSE IF remaining < MinimumStake THEN "BelowMinimumStake"
        ELSE "Ok"

bond_less(who, estate_id, less) ==
    LET err == BondLessResult(who, estate_id, less)
        bal == Unreserve([free |-> free, reserved |-> reserved], who, less)
    IN  /\ ret' = Result("bond_less", err)
        /\ IF err # "Ok"
           THEN UNCHANGED <<EstateStake, TotalStake, free, reserved>>
           ELSE /\ free' = bal.free
                /\ reserved' = bal.reserved
                /\ EstateStake' = Insert(EstateStake, <<estate_id, who>>,
                                         estate_stake(EstateStake, estate_id, who) - less)
                /\ TotalStake' = IF TotalStake < less THEN 0 ELSE TotalStake - less
        /\ UNCHANGED <<landVars, estateVars, blockVars, Round, Staked, ExitQueue, AtStake,
                       inAuction, blockNumber>>

LeaveStakingResult(who, estate_id) ==
    IF estate_id \notin DOMAIN Estates THEN "EstateDoesNotExist"
    ELSE IF <<who, estate_id>> \in ExitQueue THEN "EstateStakeAlreadyLeft"
    ELSE IF ~(estate_stake(EstateStake, estate_id, who) > 0) THEN "AccountHasNoStake"
    ELSE "Ok"

leave_staking(who, estate_id) ==
    LET err == LeaveStakingResult(who, estate_id)
    IN  /\ ret' = Result("leave_staking", err)
        /\ ExitQueue' = IF err = "Ok" THEN ExitQueue \cup {<<who, estate_id>>} ELSE ExitQueue
        /\ UNCHANGED <<landVars, estateVars, blockVars, Round, TotalStake, Staked, AtStake,
                       EstateStake, envVars>>

----------------------------------------------------------------------------
(* The round scheduler (Hooks::on_initialize).                             *)

\* RoundInfo::should_update and RoundInfo::update (primitives::staking)
should_update(round, now) == now - round.first >= round.length

\* update that leaves the round's first block as it was
update_keep_first(round, now) == [round EXCEPT !.current = @ + 1]

update(round, now) == [round EXCEPT !.current = @ + 1, !.first = now]

\* Currency::deposit_into_existing: only an account that exists is credited
RECURSIVE MintRewards(_, _)
MintRewards(bal, bonds) ==
    IF bonds = {} THEN bal
    ELSE LET b == CHOOSE x \in bonds : TRUE
             exists == bal.free[b[2]] + bal.reserved[b[2]] > 0
             paid == IF exists THEN [bal EXCEPT !.free[b[2]] = @ + 1] ELSE bal
         IN  MintRewards(paid, bonds \ {b})

\* every <<estate, staker>> entry of the snapshots of a round
SnapshotStakers(at, round) ==
    UNION {{<<k[2], b.staker>> : b \in at[k].stakers} :
              k \in {x \in DOMAIN at : x[1] = round}}

\* pay_stakers(next): [at, bal] after AtStake::drain_prefix(round_to_payout);
\* every entry is paid the fixed amount 1
pay_stakers(at, bal, next) ==
    IF next <= RewardPaymentDelay THEN [at |-> at, bal |-> bal]
    ELSE LET round_to_payout == next - RewardPaymentDelay
         IN  [at |-> [k \in {x \in DOMAIN at : x[1] # round_to_payout} |-> at[k]],
              bal |-> MintRewards(bal, SnapshotStakers(at, round_to_payout))]

\* the loop of clear_exit_queue that unreserves the minimum stake for every
\* entry, whatever the stake recorded
RECURSIVE ClearLoop_unreserve_minimum(_, _, _)
ClearLoop_unreserve_minimum(queue, es, bal) ==
    IF queue = {} THEN [es |-> es, bal |-> bal]
    ELSE LET q == CHOOSE x \in queue : TRUE
         IN  ClearLoop_unreserve_minimum(queue \ {q}, Remove(es, <<q[2], q[1]>>),
                                         Unreserve(bal, q[1], MinimumStake))

\* clear_exit_queue: ExitQueue::drain, unreserve the stake, remove the record
RECURSIVE ClearLoop(_, _, _)
ClearLoop(queue, es, bal) ==
    IF queue = {} THEN [es |-> es, bal |-> bal]
    ELSE LET q == CHOOSE x \in queue : TRUE
             account_id == q[1]
             estate_id == q[2]
             staked_amount == estate_stake(es, estate_id, account_id)
         IN  ClearLoop(queue \ {q}, Remove(es, <<estate_id, account_id>>),
                       Unreserve(bal, account_id, staked_amount))

\* clear_exit_queue that settles one entry of the queue and drops the others
clear_exit_queue_first_only(queue, es, bal) ==
    IF queue = {} THEN [es |-> es, bal |-> bal]
    ELSE ClearLoop({CHOOSE x \in queue : TRUE}, es, bal)

\* clear_exit_queue that unreserves the stakes and keeps their records
clear_exit_queue_keep_records(queue, es, bal) ==
    [es |-> es, bal |-> ClearLoop(queue, es, bal).bal]

\* clear_exit_queue that removes the records and unreserves nothing
clear_exit_queue_no_unreserve(queue, es, bal) ==
    [es |-> ClearLoop(queue, es, bal).es, bal |-> bal]

clear_exit_queue(queue, es, bal) == ClearLoop(queue, es, bal)

RECURSIVE SumAmounts(_)
SumAmounts(bonds) ==
    IF bonds = {} THEN 0
    ELSE LET b == CHOOSE x \in bonds : TRUE IN b.amount + SumAmounts(bonds \ {b})

\* EstateStake::iter_prefix(estate_id) as bonds (the Vec's order is the
\* storage iteration order; the model keeps the bonds as a set)
StakersOf(es, estate_id) ==
    {[staker |-> k[2], amount |-> es[k]] : k \in {x \in DOMAIN es : x[1] = estate_id}}

\* update_stake_snapshot whose grand total runs over every stake record, the
\* records of estates that no longer exist included
update_stake_snapshot_all_records(at, es, estates, next) ==
    LET staked == {e \in DOMAIN estates : StakersOf(es, e) # {}}
        snap(e) == [stakers |-> StakersOf(es, e), total_bond |-> SumAmounts(StakersOf(es, e))]
    IN  [at |-> [k \in DOMAIN at \cup {<<next, e>> : e \in staked} |->
                    IF k[1] = next /\ k[2] \in staked THEN snap(k[2]) ELSE at[k]],
         total |-> SumAmounts({[staker |-> k, amount |-> es[k]] : k \in DOMAIN es})]

\* update_stake_snapshot reading the stake records as they were before the
\* exit queue was settled (the rebuild ahead of the settlement)
update_stake_snapshot_before_settlement(at, es, estates, next) ==
    LET staked == {e \in DOMAIN estates : StakersOf(EstateStake, e) # {}}
        snap(e) == [stakers |-> StakersOf(EstateStake, e),
                    total_bond |-> SumAmounts(StakersOf(EstateStake, e))]
    IN  [at |-> [k \in DOMAIN at \cup {<<next, e>> : e \in staked} |->
                    IF k[1] = next /\ k[2] \in staked THEN snap(k[2]) ELSE at[k]],
         total |-> SumAmounts({[staker |-> k, amount |-> EstateStake[k]] :
                                  k \in {x \in DOMAIN EstateStake : x[1] \in DOMAIN estates}})]

\* update_stake_snapshot(next): [at, total]; only the estates in Estates are
\* iterated, and TotalStake is overwritten with their sum
update_stake_snapshot(at, es, estates, next) ==
    LET staked == {e \in DOMAIN estates : StakersOf(es, e) # {}}
        snap(e) == [stakers |-> StakersOf(es, e), total_bond |-> SumAmounts(StakersOf(es, e))]
    IN  [at |-> [k \in DOMAIN at \cup {<<next, e>> : e \in staked} |->
                    IF k[1] = next /\ k[2] \in staked THEN snap(k[2]) ELSE at[k]],
         total |-> SumAmounts({[staker |-> k, amount |-> es[k]] :
                                  k \in {x \in DOMAIN es : x[1] \in DOMAIN estates}})]

on_initialize(n) ==
    IF should_update(Round, n)
    THEN LET round == update(Round, n)
             paid == pay_stakers(AtStake, [free |-> free, reserved |-> reserved], round.current)
             cleared == clear_exit_queue(ExitQueue, EstateStake, paid.bal)
             snap == update_stake_snapshot(paid.at, cleared.es, Estates, round.current)
             issued == do_issue_undeployed_land_blocks(LandTreasuryAccount,
                           RoundIssuanceIdeal, 100, "Transferable")
         IN  /\ blockNumber' = n
             /\ ret' = [Result("on_initialize", "Ok") EXCEPT !.settled = Cardinality(ExitQueue)]
             /\ free' = cleared.bal.free
             /\ reserved' = cleared.bal.reserved
             /\ ExitQueue' = {}
             /\ EstateStake' = cleared.es
             /\ AtStake' = snap.at
             /\ TotalStake' = snap.total
             /\ Round' = round
             /\ Staked' = Insert(Staked, round.current, snap.total)
             /\ NextUndeployedLandBlockId' = issued.next
             /\ UndeployedLandBlocks' = issued.blocks
             /\ UndeployedLandBlocksOwner' = issued.owners
             /\ TotalUndeployedLandUnit' = issued.total
             /\ UNCHANGED <<landVars, estateVars, inAuction>>
    ELSE /\ blockNumber' = n
         /\ ret' = Result("on_initialize", "Ok")
         /\ UNCHANGED <<landVars, estateVars, blockVars, stakeVars, free, reserved, inAuction>>

----------------------------------------------------------------------------
(* Genesis and the specifications.                                         *)

\* GenesisBuild::build: round 1 starts at block 0; every other storage item
\* has its default value.
StorageDefaults ==
    /\ LandUnits = <<>>
    /\ AllLandUnitsCount = 0
    /\ NextEstateId = 0
    /\ AllEstatesCount = 0
    /\ Estates = <<>>
    /\ EstateOwner = {}
    /\ TotalUndeployedLandUnit = 0
    /\ NextUndeployedLandBlockId = 0
    /\ UndeployedLandBlocks = <<>>
    /\ UndeployedLandBlocksOwner = {}
    /\ Round = [current |-> 1, first |-> 0, length |-> MinBlocksPerRound]
    /\ TotalStake = 0
    /\ Staked = <<>>
    /\ ExitQueue = {}
    /\ AtStake = <<>>
    /\ EstateStake = <<>>
    /\ free = [a \in Holders |-> IF a \in Accounts THEN InitialBalance[a] ELSE 0]
    /\ reserved = [a \in Holders |-> 0]
    /\ inAuction = {}
    /\ blockNumber = 0

Init ==
    /\ StorageDefaults
    /\ MaxBounds = <<>>
    /\ ret = Result("genesis", "Ok")

\* Metaverse 1 has its bound from the start.
InitBounded ==
    /\ StorageDefaults
    /\ MaxBounds = Insert(<<>>, 1, <<0, 2>>)
    /\ ret = Result("set_max_bounds", "Ok")

\* Calls of the land registry over the metaverses M.
LandCalls(M) ==
    \/ \E m \in M, b \in BoundChoices : set_max_bounds(m, b)
    \/ \E a \in Accounts, m \in M, c \in Coords :
          AllLandUnitsCount < MaxLandCount /\ mint_land(a, m, c)
    \/ \E a \in Accounts, m \in M, cs \in CoordSeqs :
          AllLandUnitsCount < MaxLandCount /\ mint_lands(a, m, cs)
    \/ \E a \in Accounts, to \in Accounts, m \in M, c \in Coords :
          transfer_land(a, to, m, c)

EstateIds == 0..(MaxEstates - 1)

\* Calls that make, move and dissolve estates.
EstateCalls(M) ==
    \/ \E a \in Accounts, m \in M, cs \in CoordSeqs :
          /\ AllLandUnitsCount < MaxLandCount
          /\ NextEstateId < MaxEstates
          /\ mint_estate(a, m, cs)
    \/ \E a \in Accounts, m \in M, cs \in CoordSeqs :
          NextEstateId < MaxEstates /\ create_estate(a, m, cs)
    \/ \E a \in Accounts, to \in Accounts, e \in EstateIds : transfer_estate(a, to, e)
    \/ \E a \in Accounts, e \in EstateIds, m \in M : dissolve_estate(a, e, m)

\* Calls that change an estate's member list.
MemberCalls(M) ==
    \/ \E a \in Accounts, e \in EstateIds, m \in M, cs \in CoordSeqs :
          /\ e \in DOMAIN Estates => Len(Estates[e]) + Len(cs) <= MaxEstateLen
          /\ add_land_unit_to_estate(a, e, m, cs)
    \/ \E a \in Accounts, e \in EstateIds, m \in M, cs \in CoordSeqs :
          remove_land_unit_from_estate(a, e, m, cs)

\* The Estate trait, called by the auction pallet, and the auction service.
AuctionCalls(M) ==
    \/ \E e \in EstateIds, a \in Accounts, to \in Accounts :
          Estate_transfer_estate(e, a, to)
    \/ \E c \in Coords, a \in Accounts, to \in Accounts, m \in M :
          Estate_transfer_landunit(c, a, to, m)
    \/ \E items \in {S \in SUBSET AuctionItems : Cardinality(S) <= MaxAuction} :
          AuctionChanges(items)

\* Calls of the undeployed land block inventory.
BlockTypes == {"Transferable", "BoundToAddress"}
BlockIds == 0..(MaxBlocks - 1)

BlockCalls(M) ==
    \/ \E a \in Accounts, n \in 0..2, u \in 1..MaxLen, t \in BlockTypes :
          /\ NextUndeployedLandBlockId + n <= MaxBlocks
          /\ issue_undeployed_land_blocks(a, n, u, t)
    \/ \E id \in BlockIds : freeze_undeployed_land_blocks(id)
    \/ \E id \in BlockIds : unfreeze_undeployed_land_blocks(id)
    \/ \E a \in Accounts, to \in Accounts, id \in BlockIds :
          transfer_undeployed_land_blocks(a, to, id)
    \/ \E id \in BlockIds : burn_undeployed_land_blocks(id)
    \/ \E a \in Accounts, to \in Accounts, id \in BlockIds :
          approve_undeployed_land_blocks(a, to, id)
    \/ \E a \in Accounts, id \in BlockIds : unapprove_undeployed_land_blocks(a, id)
    \/ \E a \in Accounts, id \in BlockIds, m \in M, cs \in CoordSeqs :
          AllLandUnitsCount < MaxLandCount /\ deploy_land_block(a, id, m, cs)

\* Calls of the staking ledger and the block hook, for the estates followed.
StakeEstateIds == {0}

StakeCalls ==
    \/ \E a \in Accounts, e \in StakeEstateIds, x \in Amounts : bond_more(a, e, x)
    \/ \E a \in Accounts, e \in StakeEstateIds, x \in Amounts : bond_less(a, e, x)
    \/ \E a \in Accounts, e \in StakeEstateIds : leave_staking(a, e)
    \/ blockNumber < MaxBlock /\ on_initialize(blockNumber + 1)

\* The land and estate registries of one metaverse.
NextLand == LandCalls({1}) \/ EstateCalls({1}) \/ MemberCalls({1})

SpecLand == Init /\ [][NextLand]_vars

\* Estates whose units are addressed in either metaverse; only metaverse 1
\* is given a bound.
NextRegions ==
    \/ \E b \in BoundChoices : set_max_bounds(1, b)
    \/ \E a \in Accounts, c \in Coords :
          AllLandUnitsCount < MaxLandCount /\ mint_land(a, 1, c)
    \/ \E a \in Accounts, cs \in CoordSeqs :
          /\ AllLandUnitsCount < MaxLandCount
          /\ NextEstateId < MaxEstates
          /\ mint_estate(a, 1, cs)
    \/ \E a \in Accounts, e \in EstateIds, m \in Metaverses : dissolve_estate(a, e, m)
    \/ MemberCalls(Metaverses)

SpecRegions == Init /\ [][NextRegions]_vars

\* Transfers and dissolves next to the auction service.
NextAuction ==
    \/ \E a \in Accounts, c \in Coords :
          AllLandUnitsCount < MaxLandCount /\ mint_land(a, 1, c)
    \/ \E a \in Accounts, to \in Accounts, c \in Coords : transfer_land(a, to, 1, c)
    \/ \E a \in Accounts, cs \in CoordSeqs :
          /\ AllLandUnitsCount < MaxLandCount
          /\ NextEstateId < MaxEstates
          /\ mint_estate(a, 1, cs)
    \/ \E a \in Accounts, to \in Accounts, e \in EstateIds : transfer_estate(a, to, e)
    \/ \E a \in Accounts, e \in EstateIds : dissolve_estate(a, e, 1)
    \/ AuctionCalls({1})

SpecAuction == InitBounded /\ [][NextAuction]_vars

\* The undeployed land block inventory, deployed into metaverse 1.
NextBlocks ==
    \/ \E a \in Accounts, c \in Coords :
          AllLandUnitsCount < MaxLandCount /\ mint_land(a, 1, c)
    \/ BlockCalls({1})

SpecBlocks == InitBounded /\ [][NextBlocks]_vars

\* The staking ledger: an estate is minted, moved and dissolved, stakes are
\* bonded and left, blocks pass.
NextStake ==
    \/ \E a \in Accounts, c \in Coords :
          /\ NextEstateId \in StakeEstateIds
          /\ mint_estate(a, 1, <<c>>)
    \/ \E a \in Accounts, to \in Accounts, e \in StakeEstateIds : transfer_estate(a, to, e)
    \/ \E a \in Accounts, e \in StakeEstateIds : dissolve_estate(a, e, 1)
    \/ StakeCalls

SpecStake == InitBounded /\ [][NextStake]_vars

\* The block ids followed: two, so that a block can be burned and another
\* issued after it.
IssuedIds == {0, 1}

\* The counters of the block inventory: blocks are issued by root and by the
\* round scheduler, deployed, frozen and burned.
NextInventory ==
    \/ \E a \in Accounts, n \in 1..2, u \in 1..MaxLen :
          /\ NextUndeployedLandBlockId + n <= Cardinality(IssuedIds)
          /\ issue_undeployed_land_blocks(a, n, u, "Transferable")
    \/ \E id \in IssuedIds : freeze_undeployed_land_blocks(id)
    \/ \E id \in IssuedIds : unfreeze_undeployed_land_blocks(id)
    \/ \E id \in IssuedIds : burn_undeployed_land_blocks(id)
    \/ \E a \in Accounts, id \in IssuedIds, cs \in CoordSeqs :
          AllLandUnitsCount < MaxLandCount /\ deploy_land_block(a, id, 1, cs)
    \/ /\ blockNumber < MaxBlock
       /\ NextUndeployedLandBlockId + RoundIssuanceIdeal <= Cardinality(IssuedIds)
       /\ on_initialize(blockNumber + 1)

SpecInventory == InitBounded /\ [][NextInventory]_vars

\* The life of a block: every call that names a block id, on blocks of one
\* unit.
NextBurn ==
    \/ \E a \in Accounts, n \in 1..2, t \in BlockTypes :
          /\ NextUndeployedLandBlockId + n <= Cardinality(IssuedIds)
          /\ issue_undeployed_land_blocks(a, n, 1, t)
    \/ \E id \in IssuedIds : freeze_undeployed_land_blocks(id)
    \/ \E id \in IssuedIds : unfreeze_undeployed_land_blocks(id)
    \/ \E a \in Accounts, to \in Accounts, id \in IssuedIds :
          transfer_undeployed_land_blocks(a, to, id)
    \/ \E id \in IssuedIds : burn_undeployed_land_blocks(id)
    \/ \E a \in Accounts, to \in Accounts, id \in IssuedIds :
          approve_undeployed_land_blocks(a, to, id)
    \/ \E a \in Accounts, id \in IssuedIds : unapprove_undeployed_land_blocks(a, id)
    \/ \E a \in Accounts, id \in IssuedIds, cs \in CoordSeqs :
          deploy_land_block(a, id, 1, cs)

SpecBurn == InitBounded /\ [][NextBurn]_vars

\* The one block that is issued and deployed next to the mints.
MintBlockIds == {0}

\* The account that is given the block and the estates.
BlockHolder == CHOOSE a \in Accounts : TRUE

\* Every call that mints a fresh land unit; no unit is transferred or removed.
NextMint ==
    \/ \E b \in BoundChoices : set_max_bounds(1, b)
    \/ \E a \in Accounts, c \in Coords : mint_land(a, 1, c)
    \/ \E a \in Accounts, cs \in CoordSeqs : mint_lands(a, 1, cs)
    \/ \E cs \in CoordSeqs :
          NextEstateId < MaxEstates /\ mint_estate(BlockHolder, 1, cs)
    \/ \E u \in 1..MaxLen :
          /\ NextUndeployedLandBlockId = 0
          /\ issue_undeployed_land_blocks(BlockHolder, 1, u, "Transferable")
    \/ \E a \in Accounts, id \in MintBlockIds, cs \in CoordSeqs :
          deploy_land_block(a, id, 1, cs)

SpecMint == Init /\ [][NextMint]_vars

\* The blocks followed where a payout is awaited: the snapshot of round 2 is
\* paid on the advance into round 2 + RewardPaymentDelay.
MaxRewardBlock == 6

\* The staking ledger next to the accounts' own spending: the estate is made
\* and moved, its owners bond and leave, blocks pass.
NextRewards ==
    \/ /\ NextEstateId \in StakeEstateIds
       /\ mint_estate(BlockHolder, 1, <<<<0, 0>>>>)
    \/ \E a \in Accounts, to \in Accounts, e \in StakeEstateIds : transfer_estate(a, to, e)
    \/ \E a \in Accounts, e \in StakeEstateIds : bond_more(a, e, MinimumStake)
    \/ \E a \in Accounts, e \in StakeEstateIds : leave_staking(a, e)
    \/ \E a \in Accounts : Spend(a)
    \/ blockNumber < MaxRewardBlock /\ on_initialize(blockNumber + 1)

SpecRewards == InitBounded /\ [][NextRewards]_vars

\* The block hook: on_initialize is called with the next block number.
BlockPasses == blockNumber < MaxBlock /\ on_initialize(blockNumber + 1)

\* a round advance is still to come within the blocks followed
AdvanceAhead == Round.first + Round.length <= MaxBlock

\* The exit queue under block progression: the estate is made and moved, its
\* owners bond and leave while a round advance is still ahead, and blocks
\* keep passing.
NextExit ==
    \/ /\ NextEstateId \in StakeEstateIds
       /\ mint_estate(BlockHolder, 1, <<<<0, 0>>>>)
    \/ \E a \in Accounts, to \in Accounts, e \in StakeEstateIds : transfer_estate(a, to, e)
    \/ \E a \in Accounts, e \in StakeEstateIds : dissolve_estate(a, e, 1)
    \/ \E a \in Accounts, e \in StakeEstateIds, x \in Amounts :
          AdvanceAhead /\ bond_more(a, e, x)
    \/ \E a \in Accounts, e \in StakeEstateIds :
          AdvanceAhead /\ leave_staking(a, e)
    \/ BlockPasses

SpecExit == InitBounded /\ [][NextExit]_vars /\ WF_vars(BlockPasses)

\* The tenure of a block: blocks of either class with units to deploy are
\* issued, frozen, approved, transferred, deployed from and burned.
NextTenure ==
    \/ \E a \in Accounts, t \in BlockTypes :
          /\ NextUndeployedLandBlockId + 1 <= Cardinality(IssuedIds)
          /\ issue_undeployed_land_blocks(a, 1, MaxLen, t)
    \/ \E id \in IssuedIds : freeze_undeployed_land_blocks(id)
    \/ \E id \in IssuedIds : unfreeze_undeployed_land_blocks(id)
    \/ \E a \in Accounts, to \in Accounts, id \in IssuedIds :
          transfer_undeployed_land_blocks(a, to, id)
    \/ \E id \in IssuedIds : burn_undeployed_land_blocks(id)
    \/ \E a \in Accounts, to \in Accounts, id \in IssuedIds :
          approve_undeployed_land_blocks(a, to, id)
    \/ \E a \in Accounts, id \in IssuedIds : unapprove_undeployed_land_blocks(a, id)
    \/ \E a \in Accounts, id \in IssuedIds, c \in Coords :
          AllLandUnitsCount < MaxLandCount /\ deploy_land_block(a, id, 1, <<c>>)

SpecTenure == InitBounded /\ [][NextTenure]_vars

----------------------------------------------------------------------------
(* Properties.                                                             *)

\* The batch names a coordinate outside the bound of its metaverse.
HasOutOfBound(m, cs) ==
    /\ m \in DOMAIN MaxBounds
    /\ \E i \in 1..Len(cs) : ~InBound(MaxBounds[m], cs[i])

\* C1: in a region that has a bound, mint_land or mint_lands of a coordinate
\* outside the bound fails with LandUnitIsOutOfBound, and LandUnits and
\* AllLandUnitsCount are after the call what they were before it.
C1_OutOfBoundMintRejected ==
    [][\A a \in Accounts, m \in Metaverses, cs \in CoordSeqs :
          HasOutOfBound(m, cs) =>
             /\ (Len(cs) = 1 /\ mint_land(a, m, cs[1])) =>
                   /\ ret'.err = "LandUnitIsOutOfBound"
                   /\ UNCHANGED <<LandUnits, AllLandUnitsCount>>
             /\ mint_lands(a, m, cs) =>
                   /\ ret'.err = "LandUnitIsOutOfBound"
                   /\ UNCHANGED <<LandUnits, AllLandUnitsCount>>]_vars

\* C2: after a successful dissolve_estate(caller, E, region) E is absent from
\* Estates and EstateOwner, every coordinate of E's former member list is
\* owned by the caller in the land registry, and no land unit is left owned
\* by E's custodial account.
C2_DissolveReturnsUnits ==
    [][\A a \in Accounts, e \in EstateIds, m \in Metaverses :
          (dissolve_estate(a, e, m) /\ ret'.err = "Ok") =>
             /\ e \notin DOMAIN Estates'
             /\ \A o \in EstateOwner' : o[2] # e
             /\ \A i \in 1..Len(Estates[e]) :
                   get_land_units(LandUnits', m, Estates[e][i]) = a
             /\ \A k \in DOMAIN LandUnits' : LandUnits'[k] # EstateAccount(e)]_vars

\* C3: when `from` is the recorded owner of (region, coordinate), the unit is
\* not in auction and from # to, transfer_land succeeds and the land registry
\* then holds an entry for (region, coordinate) whose owner is `to`.
C3_TransferLandMovesOwner ==
    [][\A a \in Accounts, to \in Accounts, m \in Metaverses, c \in Coords :
          ( /\ <<m, c>> \in DOMAIN LandUnits
            /\ LandUnits[<<m, c>>] = a
            /\ a # to
            /\ ~check_item_in_auction(LandItem(c, m))
            /\ transfer_land(a, to, m, c) ) =>
             /\ ret'.err = "Ok"
             /\ <<m, c>> \in DOMAIN LandUnits'
             /\ LandUnits'[<<m, c>>] = to]_vars

\* C4: every stake record is either 0 or at least MinimumStake.
C4_StakeZeroOrMinimum ==
    \A k \in DOMAIN EstateStake : EstateStake[k] = 0 \/ EstateStake[k] >= MinimumStake

\* A stake was lowered by bond_less and is still on record.
C4_Witness ==
    /\ ret.op = "bond_less" /\ ret.err = "Ok"
    /\ \E k \in DOMAIN EstateStake : EstateStake[k] >= MinimumStake

RECURSIVE QueuedStake(_, _, _)
QueuedStake(queue, es, a) ==
    IF queue = {} THEN 0
    ELSE LET q == CHOOSE x \in queue : TRUE
         IN  (IF q[1] = a THEN estate_stake(es, q[2], a) ELSE 0)
                + QueuedStake(queue \ {q}, es, a)

\* C5: right after a round advance the exit queue is empty, and for every
\* (account, estate) that was queued the stake record is gone and the
\* account's reserved balance is lower by the stake it had on that estate.
C5_AdvanceSettlesExitQueue ==
    [][\A n \in 1..MaxBlock :
          (should_update(Round, n) /\ on_initialize(n)) =>
             /\ ExitQueue' = {}
             /\ \A q \in ExitQueue : <<q[2], q[1]>> \notin DOMAIN EstateStake'
             /\ \A a \in Accounts :
                   reserved'[a] = reserved[a] - QueuedStake(ExitQueue, EstateStake, a)]_vars

\* A round advance has just settled at least one queued pair.
C5_Witness ==
    ret.op = "on_initialize" /\ ret.settled > 0 /\ ExitQueue = {}

\* C6: deploy_land_block by the owner of an unfrozen block, with coordinates
\* that can be minted: with as many coordinates as the block has units left
\* the call succeeds and the block and its owner-index entry are removed;
\* with fewer it succeeds and the units left go down by that count; either
\* way the undeployed counter goes down and the land counter up by the count.
C6_DeployBurnsOrDecrements ==
    [][\A a \in Accounts, id \in BlockIds, m \in Metaverses, cs \in CoordSeqs :
          ( /\ id \in DOMAIN UndeployedLandBlocks
            /\ UndeployedLandBlocks[id].owner = a
            /\ ~UndeployedLandBlocks[id].is_frozen
            /\ Len(cs) <= UndeployedLandBlocks[id].number_land_units
            /\ MintLoop(LandUnits, m, a, cs, FALSE).err = "Ok"
            /\ deploy_land_block(a, id, m, cs) ) =>
             /\ ret'.err = "Ok"
             /\ IF Len(cs) = UndeployedLandBlocks[id].number_land_units
                THEN /\ id \notin DOMAIN UndeployedLandBlocks'
                     /\ <<a, id>> \notin UndeployedLandBlocksOwner'
                ELSE /\ id \in DOMAIN UndeployedLandBlocks'
                     /\ UndeployedLandBlocks'[id].number_land_units =
                           UndeployedLandBlocks[id].number_land_units - Len(cs)
             /\ TotalUndeployedLandUnit' = TotalUndeployedLandUnit - Len(cs)
             /\ AllLandUnitsCount' = AllLandUnitsCount + Len(cs)]_vars

\* C7: mint_lands is all-or-nothing: a call that fails leaves LandUnits and
\* AllLandUnitsCount as they were.
C7_MintLandsAllOrNothing ==
    [][\A a \in Accounts, m \in Metaverses, cs \in CoordSeqs :
          (mint_lands(a, m, cs) /\ ret'.err # "Ok") =>
             UNCHANGED <<LandUnits, AllLandUnitsCount>>]_vars

\* C8: a call that returns an error leaves all persisted state unchanged.
C8_ErrorLeavesStorage ==
    [][ret'.err # "Ok" => UNCHANGED storage]_vars

\* C9: every estate in Estates has a non-empty coordinate list.
C9_EstatesNonEmpty ==
    \A e \in DOMAIN Estates : Len(Estates[e]) > 0

\* The dispatchables that move a land unit or an estate, or dissolve an
\* estate, reject an asset the auction service reports as in auction.
ExtrinsicsRejectInAuction ==
    /\ \A a \in Accounts, to \in Accounts, m \in Metaverses, c \in Coords :
          (ret'.op = "transfer_land" /\ check_item_in_auction(LandItem(c, m))
              /\ transfer_land(a, to, m, c)) =>
             /\ ret'.err = "LandUnitAlreadyInAuction"
             /\ UNCHANGED <<LandUnits, Estates, EstateOwner>>
    /\ \A a \in Accounts, to \in Accounts, e \in EstateIds :
          (ret'.op = "transfer_estate" /\ check_item_in_auction(EstateItem(e))
              /\ transfer_estate(a, to, e)) =>
             /\ ret'.err = "EstateAlreadyInAuction"
             /\ UNCHANGED <<LandUnits, Estates, EstateOwner>>
    /\ \A a \in Accounts, e \in EstateIds, m \in Metaverses :
          (ret'.op = "dissolve_estate" /\ check_item_in_auction(EstateItem(e))
              /\ dissolve_estate(a, e, m)) =>
             /\ ret'.err = "EstateAlreadyInAuction"
             /\ UNCHANGED <<LandUnits, Estates, EstateOwner>>

\* The Estate trait functions reject an asset that is in auction.
TraitRejectsInAuction ==
    /\ \A a \in Accounts, to \in Accounts, e \in EstateIds :
          (ret'.op = "Estate::transfer_estate" /\ check_item_in_auction(EstateItem(e))
              /\ Estate_transfer_estate(e, a, to)) =>
             /\ ret'.err # "Ok"
             /\ UNCHANGED <<LandUnits, Estates, EstateOwner>>
    /\ \A a \in Accounts, to \in Accounts, m \in Metaverses, c \in Coords :
          (ret'.op = "Estate::transfer_landunit" /\ check_item_in_auction(LandItem(c, m))
              /\ Estate_transfer_landunit(c, a, to, m)) =>
             /\ ret'.err # "Ok"
             /\ UNCHANGED <<LandUnits, Estates, EstateOwner>>

RECURSIVE FreezeBurnEach(_, _)
FreezeBurnEach(st, ids) ==
    IF ids = {} THEN [err |-> "Ok"] @@ st
    ELSE LET id == CHOOSE x \in ids : TRUE
             f == do_freeze_undeployed_land_block(st.blocks, id)
             b == do_burn_undeployed_land_block(f.blocks, st.owners, st.total, id)
         IN  IF f.err # "Ok" THEN [err |-> f.err] @@ st
             ELSE IF b.err # "Ok" THEN [err |-> b.err] @@ st
             ELSE FreezeBurnEach([blocks |-> b.blocks, owners |-> b.owners,
                                  total |-> b.total], ids \ {id})

\* C11: issuing blocks and then freezing and burning each of the issued
\* blocks, with nothing in between, succeeds and leaves
\* TotalUndeployedLandUnit at the value it had before the issue.
C11_IssueFreezeBurnRoundTrip ==
    [][(ret'.op = "issue_undeployed_land_blocks" /\ ret'.err = "Ok") =>
          LET issued == NextUndeployedLandBlockId..(NextUndeployedLandBlockId' - 1)
              r == FreezeBurnEach([blocks |-> UndeployedLandBlocks',
                                   owners |-> UndeployedLandBlocksOwner',
                                   total |-> TotalUndeployedLandUnit'], issued)
          IN  /\ r.err = "Ok"
              /\ r.total = TotalUndeployedLandUnit
              /\ \A id \in issued : id \notin DOMAIN r.blocks]_vars

\* Every block issued since genesis has been frozen and burned, and the
\* counter is back at its genesis value.
C11_Witness ==
    /\ ret.op = "burn_undeployed_land_blocks" /\ ret.err = "Ok"
    /\ NextUndeployedLandBlockId = Cardinality(IssuedIds)
    /\ UndeployedLandBlocks = <<>>
    /\ TotalUndeployedLandUnit = 0

\* cs names coordinate c
Names(cs, c) == \E i \in 1..Len(cs) : cs[i] = c

\* cs names c, and the mint of every coordinate before the first c succeeds
ReachesMintOf(m, cs, c) ==
    /\ Names(cs, c)
    /\ LET i == CHOOSE j \in 1..Len(cs) : cs[j] = c /\ \A k \in 1..(j - 1) : cs[k] # c
       IN  MintLoop(LandUnits, m, DefaultAccount, SubSeq(cs, 1, i - 1), FALSE).err = "Ok"

\* deploy_land_block(a, id, ..) with cs passes the checks made before minting
DeployReachesMint(a, id, cs) ==
    /\ id \in DOMAIN UndeployedLandBlocks
    /\ UndeployedLandBlocks[id].owner = a
    /\ ~UndeployedLandBlocks[id].is_frozen
    /\ UndeployedLandBlocks[id].number_land_units > Len(cs)

\* the step fails and leaves the owner of (m, c) as recorded
FailsKeepingOwner(m, c) ==
    /\ ret'.err # "Ok"
    /\ <<m, c>> \in DOMAIN LandUnits'
    /\ LandUnits'[<<m, c>>] = LandUnits[<<m, c>>]

\* the coordinates of metaverse 1 that are recorded
Recorded == {c \in Coords : <<1, c>> \in DOMAIN LandUnits}

\* C12 as stated: while (region, coordinate) is recorded, every mint_land,
\* mint_lands, mint_estate and deploy_land_block that names it fails with
\* LandUnitIsNotAvailable and leaves its recorded owner unchanged.
C12_SecondMintNotAvailable_Original ==
    [][/\ ret'.op = "mint_land" =>
             \A a \in Accounts, c \in Recorded :
                mint_land(a, 1, c) =>
                   ret'.err = "LandUnitIsNotAvailable" /\ FailsKeepingOwner(1, c)
       /\ ret'.op = "mint_lands" =>
             \A a \in Accounts, cs \in CoordSeqs :
                ((\E c \in Recorded : Names(cs, c)) /\ mint_lands(a, 1, cs)) =>
                   \A c \in Recorded : Names(cs, c) =>
                      ret'.err = "LandUnitIsNotAvailable" /\ FailsKeepingOwner(1, c)
       /\ ret'.op = "mint_estate" =>
             \A a \in Accounts, cs \in CoordSeqs :
                ((\E c \in Recorded : Names(cs, c)) /\ mint_estate(a, 1, cs)) =>
                   \A c \in Recorded : Names(cs, c) =>
                      ret'.err = "LandUnitIsNotAvailable" /\ FailsKeepingOwner(1, c)
       /\ ret'.op = "deploy_land_block" =>
             \A a \in Accounts, cs \in CoordSeqs, id \in MintBlockIds :
                ((\E c \in Recorded : Names(cs, c)) /\ deploy_land_block(a, id, 1, cs)) =>
                   \A c \in Recorded : Names(cs, c) =>
                      ret'.err = "LandUnitIsNotAvailable" /\ FailsKeepingOwner(1, c)]_vars

\* the step is the call, made by a with the coordinates cs (and block id),
\* that ret' names
IsMintCall(a, cs, id) ==
    \/ ret'.op = "mint_land" /\ Len(cs) = 1 /\ mint_land(a, 1, cs[1])
    \/ ret'.op = "mint_lands" /\ mint_lands(a, 1, cs)
    \/ ret'.op = "mint_estate" /\ mint_estate(a, 1, cs)
    \/ ret'.op = "deploy_land_block" /\ deploy_land_block(a, id, 1, cs)

\* the call gets as far as minting a recorded coordinate
ReachesRecorded(a, cs, id) ==
    /\ \E c \in Recorded : ReachesMintOf(1, cs, c)
    /\ ret'.op = "deploy_land_block" => DeployReachesMint(a, id, cs)

\* C12 amended: while (region, coordinate) is recorded, every mint_land,
\* mint_lands, mint_estate and deploy_land_block that names it fails and
\* leaves its recorded owner unchanged; the error is LandUnitIsNotAvailable
\* when the call gets as far as minting that coordinate (always for
\* mint_land; for a batch when every earlier coordinate can be minted; for
\* deploy_land_block when also the checks of the block pass).  Stated per
\* step: no minting step changes a recorded owner, no step that returns Ok
\* is a call naming a recorded coordinate, and no step that returns another
\* error than LandUnitIsNotAvailable is a call that got as far as minting a
\* recorded coordinate.
C12_SecondMintFails ==
    [][ret'.op \in {"mint_land", "mint_lands", "mint_estate", "deploy_land_block"} =>
          /\ \A c \in Recorded :
                <<1, c>> \in DOMAIN LandUnits' /\ LandUnits'[<<1, c>>] = LandUnits[<<1, c>>]
          /\ ret'.err = "Ok" =>
                \A a \in Accounts, cs \in CoordSeqs, id \in MintBlockIds :
                   (\E c \in Recorded : Names(cs, c)) => ~IsMintCall(a, cs, id)
          /\ ret'.err \notin {"Ok", "LandUnitIsNotAvailable"} =>
                \A a \in Accounts, cs \in CoordSeqs, id \in MintBlockIds :
                   ReachesRecorded(a, cs, id) => ~IsMintCall(a, cs, id)]_vars

\* A deploy_land_block that named a recorded coordinate was turned down at
\* the mint of that coordinate.
C12_Witness ==
    /\ ret.op = "deploy_land_block" /\ ret.err = "LandUnitIsNotAvailable"
    /\ \E c \in Coords : <<1, c>> \in DOMAIN LandUnits /\ LandUnits[<<1, c>>] \in Accounts

\* id was handed out and its block is gone: the block was burned
Burned(id) ==
    id < NextUndeployedLandBlockId /\ id \notin DOMAIN UndeployedLandBlocks

\* the step is a call that names block id
NamesBlock(id) ==
    \/ ret'.op = "freeze_undeployed_land_blocks" /\ freeze_undeployed_land_blocks(id)
    \/ ret'.op = "unfreeze_undeployed_land_blocks" /\ unfreeze_undeployed_land_blocks(id)
    \/ ret'.op = "burn_undeployed_land_blocks" /\ burn_undeployed_land_blocks(id)
    \/ /\ ret'.op = "transfer_undeployed_land_blocks"
       /\ \E a \in Accounts, to \in Accounts : transfer_undeployed_land_blocks(a, to, id)
    \/ /\ ret'.op = "approve_undeployed_land_blocks"
       /\ \E a \in Accounts, to \in Accounts : approve_undeployed_land_blocks(a, to, id)
    \/ /\ ret'.op = "unapprove_undeployed_land_blocks"
       /\ \E a \in Accounts : unapprove_undeployed_land_blocks(a, id)
    \/ /\ ret'.op = "deploy_land_block"
       /\ \E a \in Accounts, cs \in CoordSeqs : deploy_land_block(a, id, 1, cs)

\* C13: a block that is burned is absent from UndeployedLandBlocks and from
\* the owner index; from then on it stays absent (its id is not issued
\* again), and every freeze, unfreeze, transfer, approve, unapprove, deploy
\* or burn naming its id fails with UndeployedLandBlockNotFound and changes
\* nothing.
C13_BurnedBlockStaysGone ==
    [][\A id \in IssuedIds :
          /\ ( /\ ret'.op = "burn_undeployed_land_blocks" /\ ret'.err = "Ok"
               /\ burn_undeployed_land_blocks(id) ) =>
                /\ id \notin DOMAIN UndeployedLandBlocks'
                /\ \A o \in UndeployedLandBlocksOwner' : o[2] # id
          /\ Burned(id) =>
                /\ id \notin DOMAIN UndeployedLandBlocks'
                /\ \A o \in UndeployedLandBlocksOwner' : o[2] # id
                /\ NextUndeployedLandBlockId' > id
                /\ NamesBlock(id) =>
                      /\ ret'.err = "UndeployedLandBlockNotFound"
                      /\ UNCHANGED storage]_vars

\* A block was burned, a block was issued after it, and a deploy naming the
\* burned id was turned down.
C13_Witness ==
    /\ ret.op = "deploy_land_block" /\ ret.err = "UndeployedLandBlockNotFound"
    /\ \E id \in IssuedIds, later \in IssuedIds :
          Burned(id) /\ later > id /\ later \in DOMAIN UndeployedLandBlocks

\* land_units names a coordinate that list does not hold
NamesNonMember(list, land_units) ==
    \E i \in 1..Len(land_units) : Position(list, land_units[i]) = 0

\* C14: remove_land_unit_from_estate called by the owner of the estate with
\* a coordinate that is not in the estate's list returns an error value (it
\* does not panic) and leaves the estate's list and the land registry
\* unchanged.
C14_RemoveNonMemberIsError ==
    [][ret'.op = "remove_land_unit_from_estate" =>
          \A a \in Accounts, e \in EstateIds, cs \in CoordSeqs :
             ( /\ e \in DOMAIN Estates
               /\ <<a, e>> \in EstateOwner
               /\ NamesNonMember(Estates[e], cs)
               /\ remove_land_unit_from_estate(a, e, 1, cs) ) =>
                /\ ret'.err \notin {"Ok", "Panic"}
                /\ UNCHANGED <<Estates, LandUnits>>]_vars

\* C15: the round index changes only in an on_initialize(n) step with
\* n - first >= length; that step raises the index by exactly one and sets
\* the round's first block to n; an on_initialize step that does not meet the
\* condition changes no storage at all.
C15_RoundAdvancesOnlyWhenDue ==
    [][/\ Round'.current # Round.current =>
             /\ ret'.op = "on_initialize"
             /\ blockNumber' - Round.first >= Round.length
             /\ Round'.current = Round.current + 1
             /\ Round'.first = blockNumber'
       /\ (ret'.op = "on_initialize" /\ blockNumber' - Round.first < Round.length) =>
             UNCHANGED storage]_vars

\* The round has just been advanced a second time, by the block hook.
C15_Witness ==
    ret.op = "on_initialize" /\ Round.current = 3 /\ Round.first = blockNumber

\* the rewards the payout of round_to_payout credits to account a, when the
\* account exists
RewardsDue(at, round_to_payout, a) ==
    Cardinality({x \in SnapshotStakers(at, round_to_payout) : x[2] = a})

\* C16: in every triggered round advance the four steps happen exactly once
\* each and in this order: the delayed snapshot is paid out and consumed, the
\* exit queue is settled, the snapshot of the new round is rebuilt from the
\* stakes left after the settlement, and the round's undeployed blocks are
\* issued to the treasury.
C16_AdvanceStepsInOrder ==
    [][(ret'.op = "on_initialize" /\ Round'.current # Round.current) =>
          LET next == Round'.current
              due == IF next <= RewardPaymentDelay THEN 0 ELSE next - RewardPaymentDelay
          IN  \* payout of the delayed snapshot, once
              /\ \A k \in DOMAIN AtStake' : k[1] # due
              /\ \A a \in Accounts :
                    free'[a] + reserved'[a] =
                       free[a] + reserved[a]
                          + (IF free[a] + reserved[a] > 0
                             THEN RewardsDue(AtStake, due, a) ELSE 0)
              \* settlement of the exit queue, once
              /\ ExitQueue' = {}
              /\ \A a \in Accounts :
                    reserved'[a] = reserved[a] - QueuedStake(ExitQueue, EstateStake, a)
              \* the new snapshot holds the stakes left after the settlement
              /\ \A e \in DOMAIN Estates :
                    IF StakersOf(EstateStake', e) = {}
                    THEN <<next, e>> \notin DOMAIN AtStake'
                    ELSE /\ <<next, e>> \in DOMAIN AtStake'
                         /\ AtStake'[<<next, e>>].stakers = StakersOf(EstateStake', e)
                         /\ \A q \in ExitQueue : q[2] = e =>
                               \A b \in AtStake'[<<next, e>>].stakers : b.staker # q[1]
              /\ Staked'[next] = TotalStake'
              \* issuance to the treasury, once
              /\ NextUndeployedLandBlockId' = NextUndeployedLandBlockId + RoundIssuanceIdeal
              /\ \A id \in NextUndeployedLandBlockId..(NextUndeployedLandBlockId' - 1) :
                    /\ <<LandTreasuryAccount, id>> \in UndeployedLandBlocksOwner'
                    /\ UndeployedLandBlocks'[id].number_land_units = 100
              /\ TotalUndeployedLandUnit' =
                    TotalUndeployedLandUnit + 100 * RoundIssuanceIdeal]_vars

\* A round advance has just paid a delayed snapshot, settled a queued pair
\* and issued to the treasury.
C16_Witness ==
    /\ ret.op = "on_initialize" /\ ret.settled > 0
    /\ Round.first = blockNumber /\ Round.current > RewardPaymentDelay + 1
    /\ \E a \in Accounts : free[a] + reserved[a] > InitialBalance[a]
    /\ \E o \in UndeployedLandBlocksOwner : o[1] = LandTreasuryAccount

\* C17: a successful bond_more(A, E, amount) requires that E exists, that A
\* is E's recorded owner and that (A, E) is not in the exit queue, and it
\* raises EstateStake[E][A], A's reserved balance and TotalStake by exactly
\* amount; when a precondition fails or the reserve fails the call fails and
\* all three are unchanged.
C17_BondMoreExact ==
    [][ret'.op = "bond_more" =>
          \A a \in Accounts, e \in StakeEstateIds, x \in Amounts :
             bond_more(a, e, x) =>
                /\ ( \/ e \notin DOMAIN Estates
                     \/ <<a, e>> \notin EstateOwner
                     \/ <<a, e>> \in ExitQueue
                     \/ free[a] < x ) => ret'.err # "Ok"
                /\ IF ret'.err = "Ok"
                   THEN /\ estate_stake(EstateStake', e, a) =
                              estate_stake(EstateStake, e, a) + x
                        /\ \A k \in DOMAIN EstateStake' \ {<<e, a>>} :
                              k \in DOMAIN EstateStake /\ EstateStake'[k] = EstateStake[k]
                        /\ reserved' = [reserved EXCEPT ![a] = @ + x]
                        /\ TotalStake' = TotalStake + x
                   ELSE UNCHANGED <<EstateStake, reserved, TotalStake>>]_vars

\* The owner of an estate has just bonded more on top of a stake already there.
C17_Witness ==
    /\ ret.op = "bond_more" /\ ret.err = "Ok"
    /\ \E k \in DOMAIN EstateStake :
          /\ EstateStake[k] > MinimumStake
          /\ <<k[2], k[1]>> \in EstateOwner
          /\ reserved[k[2]] >= EstateStake[k]

\* C18: in every reachable state AllLandUnitsCount equals the number of
\* (region, coordinate) entries of the land registry, over all regions.
C18_LandCountMatchesRegistry ==
    AllLandUnitsCount = Cardinality(DOMAIN LandUnits)

\* the units left in the blocks of UndeployedLandBlocks
RECURSIVE SumUnits(_, _)
SumUnits(blocks, ids) ==
    IF ids = {} THEN 0
    ELSE LET id == CHOOSE x \in ids : TRUE
         IN  blocks[id].number_land_units + SumUnits(blocks, ids \ {id})

\* C19: in every reachable state TotalUndeployedLandUnit equals the sum of
\* number_land_units over the blocks present in UndeployedLandBlocks, and no
\* issue, deploy or burn ends with the counter's subtraction underflowing.
C19_UndeployedCountMatchesBlocks ==
    /\ TotalUndeployedLandUnit = SumUnits(UndeployedLandBlocks, DOMAIN UndeployedLandBlocks)
    /\ TotalUndeployedLandUnit >= 0
    /\ ret.op \in {"issue_undeployed_land_blocks", "deploy_land_block",
                    "burn_undeployed_land_blocks", "on_initialize"} => ret.err # "Overflow"

\* A block has just been deployed from while another block was burned before:
\* the block ids issued are used up and one block is left, partly deployed.
C19_Witness ==
    /\ ret.op = "deploy_land_block" /\ ret.err = "Ok"
    /\ DOMAIN LandUnits # {}
    /\ NextUndeployedLandBlockId = Cardinality(IssuedIds)
    /\ Cardinality(DOMAIN UndeployedLandBlocks) = 1
    /\ TotalUndeployedLandUnit > 0

\* every estate of Estates has exactly one owner record, and every owner
\* record names an estate of Estates
OwnerRecordsMatch(estates, eo) ==
    /\ \A e \in DOMAIN estates : Cardinality({o \in eo : o[2] = e}) = 1
    /\ \A o \in eo : o[2] \in DOMAIN estates

\* transfer_estate fails with NoPermission for a caller that is not the
\* recorded owner and with AlreadyOwnTheEstate for the owner naming itself,
\* for the estates in scope; the records stay as they were
TransferEstateRejects(scope) ==
    ret'.op = "transfer_estate" =>
       \A a \in Accounts, to \in Accounts, e \in scope :
          transfer_estate(a, to, e) =>
             /\ <<a, e>> \notin EstateOwner =>
                   ret'.err = "NoPermission" /\ UNCHANGED <<Estates, EstateOwner>>
             /\ (<<a, e>> \in EstateOwner /\ a = to) =>
                   ret'.err = "AlreadyOwnTheEstate" /\ UNCHANGED <<Estates, EstateOwner>>

\* C20 as stated: in every reachable state each estate of Estates has exactly
\* one EstateOwner record and no record names an estate that does not exist;
\* transfer_estate by a non-owner fails with NoPermission and with from == to
\* fails with AlreadyOwnTheEstate, both leaving the records unchanged.
C20_SingleOwnerRecord_Original ==
    [][/\ OwnerRecordsMatch(Estates, EstateOwner)
       /\ OwnerRecordsMatch(Estates', EstateOwner')
       /\ TransferEstateRejects(EstateIds)]_vars

\* C20 amended: the owner records match the estates in every reachable state;
\* for an estate that is not in auction, transfer_estate by a non-owner fails
\* with NoPermission and by the owner with from == to fails with
\* AlreadyOwnTheEstate; for an estate in auction it fails with
\* EstateAlreadyInAuction whoever calls; every such failure leaves the
\* records unchanged.
C20_SingleOwnerRecord ==
    [][/\ OwnerRecordsMatch(Estates, EstateOwner)
       /\ OwnerRecordsMatch(Estates', EstateOwner')
       /\ TransferEstateRejects({e \in EstateIds : ~check_item_in_auction(EstateItem(e))})
       /\ ret'.op = "transfer_estate" =>
             \A a \in Accounts, to \in Accounts, e \in EstateIds :
                (check_item_in_auction(EstateItem(e)) /\ transfer_estate(a, to, e)) =>
                   /\ ret'.err = "EstateAlreadyInAuction"
                   /\ UNCHANGED <<Estates, EstateOwner>>]_vars

\* A transfer of an estate that exists and is not in auction, by an account
\* that is not its owner, has just been refused.
C20_Witness ==
    /\ ret.op = "transfer_estate" /\ ret.err = "NoPermission"
    /\ \E e \in DOMAIN Estates :
          /\ ~check_item_in_auction(EstateItem(e))
          /\ \E o \in EstateOwner : o[2] = e

\* C21: in every reachable state, for every existing estate E, every
\* coordinate of E's member list is recorded in the land registry (in some
\* region) as owned by E's custodial account, and every land unit owned by
\* E's custodial account is in E's member list.
C21_EstateHoldsItsUnits ==
    \A e \in DOMAIN Estates :
       /\ \A i \in 1..Len(Estates[e]) :
             \E m \in Metaverses :
                /\ <<m, Estates[e][i]>> \in DOMAIN LandUnits
                /\ LandUnits[<<m, Estates[e][i]>>] = EstateAccount(e)
       /\ \A k \in DOMAIN LandUnits :
             LandUnits[k] = EstateAccount(e) => Position(Estates[e], k[2]) # 0

\* bond_less(a, e, x) would leave a stake of a on e that is below
\* MinimumStake, zero included
LeavesBelowMinimum(a, e, x) ==
    /\ estate_stake(EstateStake, e, a) - x >= 0
    /\ estate_stake(EstateStake, e, a) - x < MinimumStake

\* a successful bond_less lowers the stake, the reserved balance and
\* TotalStake by exactly the amount; a failed one leaves them unchanged
BondLessEffect(a, e, x) ==
    IF ret'.err = "Ok"
    THEN /\ estate_stake(EstateStake', e, a) = estate_stake(EstateStake, e, a) - x
         /\ \A k \in DOMAIN EstateStake' \ {<<e, a>>} :
               k \in DOMAIN EstateStake /\ EstateStake'[k] = EstateStake[k]
         /\ reserved' = [reserved EXCEPT ![a] = @ - x]
         /\ TotalStake' = TotalStake - x
    ELSE UNCHANGED <<EstateStake, reserved, TotalStake>>

\* C22 as stated: bond_less(A, E, amount) whose subtraction would leave
\* EstateStake[E][A] below MinimumStake, exactly zero included, fails with
\* BelowMinimumStake and leaves EstateStake, A's reserved balance and
\* TotalStake unchanged; a successful bond_less lowers all three by exactly
\* amount.
C22_BondLessFloor_Original ==
    [][ret'.op = "bond_less" =>
          \A a \in Accounts, e \in StakeEstateIds, x \in Amounts :
             bond_less(a, e, x) =>
                /\ LeavesBelowMinimum(a, e, x) => ret'.err = "BelowMinimumStake"
                /\ BondLessEffect(a, e, x)]_vars

\* C22 amended: bond_less(A, E, amount) for an existing estate E, by E's
\* recorded owner A with (A, E) not in the exit queue, whose subtraction would
\* leave the stake below MinimumStake, exactly zero included, fails with
\* BelowMinimumStake; when E does not exist, A is not the owner or (A, E) is in
\* the exit queue the call fails with that check's error instead; every
\* failure leaves the three quantities unchanged and a successful bond_less
\* lowers all three by exactly amount.
C22_BondLessFloor ==
    [][ret'.op = "bond_less" =>
          \A a \in Accounts, e \in StakeEstateIds, x \in Amounts :
             bond_less(a, e, x) =>
                /\ LeavesBelowMinimum(a, e, x) =>
                      ret'.err = IF BondChecks(a, e) = "Ok" THEN "BelowMinimumStake"
                                 ELSE BondChecks(a, e)
                /\ BondLessEffect(a, e, x)]_vars

\* The owner of an estate has just been refused a bond_less that would have
\* taken the stake to exactly zero.
C22_Witness ==
    /\ ret.op = "bond_less" /\ ret.err = "BelowMinimumStake"
    /\ \E k \in DOMAIN EstateStake, x \in Amounts :
          /\ EstateStake[k] = x
          /\ <<k[2], k[1]>> \in EstateOwner /\ <<k[2], k[1]>> \notin ExitQueue
          /\ reserved[k[2]] >= x

\* the step is a round advance
IsAdvance == ret'.op = "on_initialize" /\ Round'.current # Round.current

\* the step is a bond_more or a bond_less of a for e
IsBondCall(a, e) ==
    \/ ret'.op = "bond_more" /\ \E x \in Amounts : bond_more(a, e, x)
    \/ ret'.op = "bond_less" /\ \E x \in Amounts : bond_less(a, e, x)

\* while (a, e) is queued and no round advance happens the stake of a on e
\* stays, and the pair stays queued
QueuedStakeKept(a, e) ==
    ~IsAdvance => /\ estate_stake(EstateStake', e, a) = estate_stake(EstateStake, e, a)
                  /\ <<a, e>> \in ExitQueue'

\* leave_staking changes the exit queue and nothing else
LeaveTouchesQueueOnly ==
    ret'.op = "leave_staking" =>
       UNCHANGED <<EstateStake, free, reserved, TotalStake, Staked, AtStake>>

\* C23 as stated: from a successful leave_staking(A, E) until the next round
\* advance EstateStake[E][A] does not change; bond_more and bond_less for
\* (A, E) and a second leave_staking fail with EstateStakeAlreadyLeft;
\* leave_staking changes only the exit queue.
C23_QueuedPairFrozen_Original ==
    [][/\ LeaveTouchesQueueOnly
       /\ \A a \in Accounts, e \in StakeEstateIds :
             <<a, e>> \in ExitQueue =>
                /\ QueuedStakeKept(a, e)
                /\ IsBondCall(a, e) => ret'.err = "EstateStakeAlreadyLeft"
                /\ (ret'.op = "leave_staking" /\ leave_staking(a, e)) =>
                      ret'.err = "EstateStakeAlreadyLeft"]_vars

\* C23 amended: from a successful leave_staking(A, E) until the next round
\* advance EstateStake[E][A] does not change and the pair stays queued;
\* bond_more and bond_less for (A, E) fail, with EstateStakeAlreadyLeft when
\* E exists and A is its recorded owner, with EstateDoesNotExist when E is
\* gone and with NoPermission when A is not the owner; a second
\* leave_staking fails with EstateStakeAlreadyLeft when E exists and with
\* EstateDoesNotExist when it is gone; leave_staking changes only the exit
\* queue.
C23_QueuedPairFrozen ==
    [][/\ LeaveTouchesQueueOnly
       /\ \A a \in Accounts, e \in StakeEstateIds :
             <<a, e>> \in ExitQueue =>
                /\ QueuedStakeKept(a, e)
                /\ IsBondCall(a, e) =>
                      ret'.err = IF e \notin DOMAIN Estates THEN "EstateDoesNotExist"
                                 ELSE IF <<a, e>> \notin EstateOwner THEN "NoPermission"
                                 ELSE "EstateStakeAlreadyLeft"
                /\ (ret'.op = "leave_staking" /\ leave_staking(a, e)) =>
                      ret'.err = IF e \notin DOMAIN Estates THEN "EstateDoesNotExist"
                                 ELSE "EstateStakeAlreadyLeft"]_vars

\* A bond_more of the owner of an estate has just been refused because the
\* pair is in the exit queue, with its stake still on record.
C23_Witness ==
    /\ ret.op = "bond_more" /\ ret.err = "EstateStakeAlreadyLeft"
    /\ \E q \in ExitQueue :
          /\ q \in EstateOwner
          /\ estate_stake(EstateStake, q[2], q[1]) >= MinimumStake

\* what an account holds, free and reserved
TotalBalance(f, r, a) == f[a] + r[a]

\* C24: on the advance into round r with reward delay d: if r <= d no reward
\* is minted and no snapshot is consumed; otherwise every staker recorded in
\* the snapshots of round r - d, and no other account, receives a reward in
\* that advance.
C24_PayoutOfDelayedSnapshot ==
    [][IsAdvance =>
          LET r == Round'.current
              d == RewardPaymentDelay
          IN  IF r <= d
              THEN /\ \A a \in Holders :
                         TotalBalance(free', reserved', a) = TotalBalance(free, reserved, a)
                   /\ \A k \in DOMAIN AtStake :
                         k \in DOMAIN AtStake' /\ AtStake'[k] = AtStake[k]
              ELSE \A a \in Holders :
                      IF \E x \in SnapshotStakers(AtStake, r - d) : x[2] = a
                      THEN TotalBalance(free', reserved', a) > TotalBalance(free, reserved, a)
                      ELSE TotalBalance(free', reserved', a) = TotalBalance(free, reserved, a)]_vars

\* the sum of f over keys
RECURSIVE SumOver(_, _)
SumOver(f, keys) ==
    IF keys = {} THEN 0
    ELSE LET k == CHOOSE x \in keys : TRUE IN f[k] + SumOver(f, keys \ {k})

\* the sum of total_bond over the snapshots of round r
RECURSIVE SumTotalBond(_, _)
SumTotalBond(at, keys) ==
    IF keys = {} THEN 0
    ELSE LET k == CHOOSE x \in keys : TRUE
         IN  at[k].total_bond + SumTotalBond(at, keys \ {k})

\* C25: after the advance into round r, for every existing estate E with at
\* least one staker AtStake[r][E] lists exactly the (account, stake) pairs of
\* EstateStake[E] with total_bond equal to their sum, estates without stakers
\* have no snapshot for r, and Staked[r] and TotalStake both equal the sum of
\* total_bond over the snapshots of round r.
C25_SnapshotMatchesStakes ==
    [][IsAdvance =>
          LET r == Round'.current
              recs(e) == {k \in DOMAIN EstateStake' : k[1] = e}
              snaps == {k \in DOMAIN AtStake' : k[1] = r}
          IN  /\ \A e \in DOMAIN Estates' :
                    IF recs(e) = {} THEN <<r, e>> \notin snaps
                    ELSE /\ <<r, e>> \in snaps
                         /\ AtStake'[<<r, e>>].stakers =
                               {[staker |-> k[2], amount |-> EstateStake'[k]] : k \in recs(e)}
                         /\ AtStake'[<<r, e>>].total_bond = SumOver(EstateStake', recs(e))
              /\ \A k \in snaps : k[2] \in DOMAIN Estates'
              /\ Staked'[r] = SumTotalBond(AtStake', snaps)
              /\ TotalStake' = SumTotalBond(AtStake', snaps)]_vars

\* A round advance has just recorded a snapshot with two stakers.
C25_Witness ==
    /\ ret.op = "on_initialize" /\ Round.first = blockNumber /\ Round.current > 1
    /\ \E k \in DOMAIN AtStake :
          /\ k[1] = Round.current
          /\ Cardinality(AtStake[k].stakers) = 2
          /\ Staked[Round.current] = AtStake[k].total_bond

\* C26: an (account, estate) pair that is in the exit queue when a round
\* advance is triggered does not appear in the snapshot built for the new
\* round, and its stake is not counted in Staked[new round]: the exit
\* settlement runs before the snapshot rebuild.
C26_QueuedPairNotInSnapshot ==
    [][IsAdvance =>
          LET r == Round'.current
              counted == {k \in DOMAIN EstateStake :
                             k[1] \in DOMAIN Estates /\ <<k[2], k[1]>> \notin ExitQueue}
          IN  /\ \A q \in ExitQueue :
                    <<r, q[2]>> \in DOMAIN AtStake' =>
                       \A b \in AtStake'[<<r, q[2]>>].stakers : b.staker # q[1]
              /\ Staked'[r] = SumOver(EstateStake, counted)]_vars

\* A round advance has just settled a queued pair and recorded a snapshot of
\* the stakes that stayed.
C26_Witness ==
    /\ ret.op = "on_initialize" /\ ret.settled > 0 /\ Round.first = blockNumber
    /\ \E k \in DOMAIN AtStake : k[1] = Round.current
    /\ Staked[Round.current] > 0

\* C27: while blocks keep passing, every (account, estate) pair placed in the
\* exit queue is eventually removed from it; it is removed at the first round
\* advance after the leave_staking and by no other step, and its stake is
\* unreserved in that step.
C27_QueuedPairEventuallySettled ==
    /\ \A a \in Accounts, e \in StakeEstateIds :
          (<<a, e>> \in ExitQueue) ~> (<<a, e>> \notin ExitQueue)
    /\ [][\A q \in ExitQueue :
             IF IsAdvance
             THEN /\ q \notin ExitQueue'
                  /\ <<q[2], q[1]>> \notin DOMAIN EstateStake'
                  /\ reserved'[q[1]] = reserved[q[1]] - QueuedStake(ExitQueue, EstateStake, q[1])
                  /\ free'[q[1]] >= free[q[1]] + QueuedStake(ExitQueue, EstateStake, q[1])
             ELSE q \in ExitQueue']_vars

\* A round advance has just settled two queued pairs.
C27_Witness ==
    ret.op = "on_initialize" /\ ret.settled = 2 /\ ExitQueue = {} /\ EstateStake = <<>>

\* C28: an undeployed block is removed from the inventory only by a step
\* that starts from a state in which the block is frozen; a burn of an
\* unfrozen block fails with OnlyFrozenUndeployedLandBlockCanBeDestroyed and
\* changes neither the block, the owner index nor the undeployed counter.
C28_OnlyFrozenBlocksRemoved ==
    [][\A id \in DOMAIN UndeployedLandBlocks :
          /\ id \notin DOMAIN UndeployedLandBlocks' => UndeployedLandBlocks[id].is_frozen
          /\ ( /\ ret'.op = "burn_undeployed_land_blocks"
               /\ ~UndeployedLandBlocks[id].is_frozen
               /\ burn_undeployed_land_blocks(id) ) =>
                /\ ret'.err = "OnlyFrozenUndeployedLandBlockCanBeDestroyed"
                /\ UNCHANGED <<UndeployedLandBlocks, UndeployedLandBlocksOwner,
                               TotalUndeployedLandUnit>>]_vars

\* A burn of an unfrozen block has just been refused, after another block
\* was frozen and burned.
C28_Witness ==
    /\ ret.op = "burn_undeployed_land_blocks"
    /\ ret.err = "OnlyFrozenUndeployedLandBlockCanBeDestroyed"
    /\ Cardinality(DOMAIN UndeployedLandBlocks) < NextUndeployedLandBlockId
    /\ \E id \in DOMAIN UndeployedLandBlocks : ~UndeployedLandBlocks[id].is_frozen

\* C29: the owner of an undeployed block changes only through a transfer by
\* its current owner while the block is unfrozen and of Transferable class;
\* a non-transferable block keeps its owner for its whole life; while a block
\* is frozen its owner, approved delegate and remaining unit count do not
\* change.
C29_BlockOwnerChanges ==
    [][\A id \in DOMAIN UndeployedLandBlocks \cap DOMAIN UndeployedLandBlocks' :
          LET b == UndeployedLandBlocks[id]
              after == UndeployedLandBlocks'[id]
          IN  /\ after.owner # b.owner =>
                    /\ ret'.op = "transfer_undeployed_land_blocks" /\ ret'.err = "Ok"
                    /\ ~b.is_frozen
                    /\ b.undeployed_land_block_type = "Transferable"
                    /\ transfer_undeployed_land_blocks(b.owner, after.owner, id)
              /\ after.undeployed_land_block_type = b.undeployed_land_block_type
              /\ b.undeployed_land_block_type # "Transferable" => after.owner = b.owner
              /\ b.is_frozen =>
                    /\ after.owner = b.owner
                    /\ after.approved = b.approved
                    /\ after.number_land_units = b.number_land_units]_vars

\* A transfer of a block of Transferable class by its owner has just
\* succeeded while another block, of BoundToAddress class, is frozen with an
\* approved delegate.
C29_Witness ==
    /\ ret.op = "transfer_undeployed_land_blocks"
    /\ ret.err = "Ok"
    /\ \E id \in DOMAIN UndeployedLandBlocks :
          LET b == UndeployedLandBlocks[id]
          IN  /\ b.undeployed_land_block_type = "BoundToAddress"
              /\ b.is_frozen
              /\ b.approved # {}

\* C30: in every reachable state TotalStake equals the sum of
\* EstateStake[E][A] over all (estate, account) pairs, after any sequence of
\* bond_more, bond_less, leave_staking, dissolve_estate, transfer_estate and
\* round advances.
C30_TotalStakeIsSumOfStakes ==
    TotalStake = SumOver(EstateStake, DOMAIN EstateStake)

\* C31: bonded stake is never stranded: in every reachable state, for every
\* pair with EstateStake[E][A] > 0, either (A, E) is already in the exit queue
\* or leave_staking(A, E) would succeed, also after E was transferred or
\* dissolved.
C31_StakeNeverStranded ==
    \A k \in DOMAIN EstateStake :
       EstateStake[k] > 0 =>
          \/ <<k[2], k[1]>> \in ExitQueue
          \/ LeaveStakingResult(k[2], k[1]) = "Ok"

\* the stake of account a summed over all estates
StakeOf(a) == SumOver(EstateStake, {k \in DOMAIN EstateStake : k[2] = a})

\* C32: for every account A, in every reachable state the balance reserved by
\* this pallet for A equals the sum over all estates E of EstateStake[E][A].
C32_ReservedMatchesStake ==
    \A a \in Accounts : reserved[a] = StakeOf(a)

\* A round advance has just settled a queued pair while another account
\* still holds a stake above the minimum.
C32_Witness ==
    /\ ret.op = "on_initialize" /\ ret.settled > 0
    /\ \E a \in Accounts : reserved[a] > MinimumStake

\* the coordinates of a member list
Members(list) == {list[i] : i \in 1..Len(list)}

\* C33: no coordinate of the region is a member of two different estates, and
\* no estate's member list holds the same coordinate twice, after any
\* sequence of mint_estate, create_estate, add_land_unit_to_estate and
\* remove_land_unit_from_estate.
C33_MembersAreDistinct ==
    /\ \A e1, e2 \in DOMAIN Estates :
          e1 # e2 => Members(Estates[e1]) \cap Members(Estates[e2]) = {}
    /\ \A e \in DOMAIN Estates :
          Cardinality(Members(Estates[e])) = Len(Estates[e])

\* C34: in every reachable state UndeployedLandBlocksOwner contains (a, id)
\* exactly when block id exists and its recorded owner is a, so every
\* existing block has exactly one index entry, and every existing block id is
\* smaller than NextUndeployedLandBlockId.
C34_BlockOwnerIndexMatches ==
    /\ UndeployedLandBlocksOwner =
          {<<UndeployedLandBlocks[id].owner, id>> : id \in DOMAIN UndeployedLandBlocks}
    /\ \A id \in DOMAIN UndeployedLandBlocks :
          /\ Cardinality({o \in UndeployedLandBlocksOwner : o[2] = id}) = 1
          /\ id < NextUndeployedLandBlockId

\* A block has just changed hands; a block was burned before and a block
\* issued after the first one exists.
C34_Witness ==
    /\ ret.op = "transfer_undeployed_land_blocks" /\ ret.err = "Ok"
    /\ NextUndeployedLandBlockId > Cardinality(DOMAIN UndeployedLandBlocks)
    /\ \E o \in UndeployedLandBlocksOwner : o[2] > 0

====
